---- MODULE Spec2Model ----
(***************************************************************************)
(* A model of the Quorum log-forensics backend: the hub's sync-package     *)
(* import and export (services/hub_service.py), the analysis session       *)
(* lifecycle (services/analysis_service.py) and the detector model store   *)
(* (ai_engine/utils/performance.py and the detectors' save/load).          *)
(*                                                                         *)
(* Each subsystem has its own specification over the shared variables; a   *)
(* subsystem's actions leave the other subsystems' variables unchanged.    *)
(***************************************************************************)
EXTENDS Integers, Sequences, FiniteSets, TLC

(***************************************************************************)
(* Bounds of the model.                                                    *)
(***************************************************************************)
MaxImports     == 2   \* imports in one behaviour of SpecHub
MaxCorrImports == 3   \* imports in one behaviour of SpecCorr
MaxPkgAnoms    == 2   \* anomalies carried by one package of SpecHub
MaxPkgId       == 1   \* package ids 1..MaxPkgId occur in package files
MaxCorrIds     == 2   \* anomaly ids 1..MaxCorrIds occur in packages of SpecCorr
MaxLocalAnoms  == 3   \* anomalies a terminal holds in SpecExport
MaxExports     == 2   \* exports in one behaviour of SpecExport
MaxSessions    == 2   \* analyze_logs calls in one behaviour of SpecSession
MaxLogs        == 2   \* logs the time window of one call selects, at most
MaxArity       == 2   \* feature arities 1..MaxArity in SpecStore
MaxFits        == 2   \* distinct training sets a detector is fitted on
MaxSaves       == 2   \* saves in one behaviour of SpecStore
MaxStoreOps    == 5   \* steps in one behaviour of SpecStore
MaxN           == 4   \* length of the score vectors that are calibrated
MaxScore       == 2   \* blended scores 0..MaxScore of those vectors
MaxEnsembleN   == 2   \* rows of the feature matrix in ensemble mode

VARIABLES
    hub_anomalies,   \* table hub_anomalies, rows in insertion order
    node_registry,   \* table node_registry: node_id -> row
    node_sync_log,   \* table node_sync_log, rows in insertion order
    now,             \* the hub's clock: number of imports started so far
    last,            \* history: the last import, its outcome, the tables before it
    correlations     \* what get_cross_node_correlations returned last

hubVars == <<hub_anomalies, node_registry, node_sync_log, now, last, correlations>>

VARIABLES
    local_anomalies, \* terminal: the anomalies joined with their logs, as rows
    exports,         \* terminal: number of packages exported so far
    qsp              \* terminal: the last export call and the file it wrote

exportVars == <<local_anomalies, exports, qsp>>

VARIABLES
    analysis_sessions, \* table analysis_sessions: session_id -> row
    anomalies,         \* table anomalies, rows in insertion order
    pc,                \* where the running analyze_logs call stands
    call,              \* the locals of the running analyze_logs call
    started,           \* number of analyze_logs calls started so far
    clock,             \* datetime.utcnow() of the analysis host
    result,            \* how the last analyze_logs call ended
    returned_ids       \* history: the session ids analyze_logs has returned

sessionVars ==
    <<analysis_sessions, anomalies, pc, call, started, clock, result, returned_ids>>

VARIABLES
    detector,    \* the detector instance of the running process
    model_file,  \* what lies at the detector's model path
    saves,       \* number of saves so far (the clock of created_at)
    store_ops,   \* number of steps the model store has seen
    saved,       \* history: the last save, its file and who wrote it
    loaded       \* history: the last load, its file, expectations and answer

storeVars == <<detector, model_file, saves, store_ops, saved, loaded>>

VARIABLES
    detection    \* history: the last call of EnsembleDetector.detect

detectVars == <<detection>>

VARIABLES
    session_results  \* history: the last answer of get_session_results

queryVars == <<session_results>>

VARIABLES
    verification     \* history: the last call of verify_update_package

soupVars == <<verification>>

VARIABLES
    node_id_file,    \* DATA_DIR/node_id: NoFile or the text it holds
    this_node_id,    \* HubService.this_node_id of the running instance
    starts,          \* how many times HubService was constructed
    node_writes,     \* history: the texts written to DATA_DIR/node_id
    node_packages    \* history: source_node and target_node of each export

nodeVars == <<node_id_file, this_node_id, starts, node_writes, node_packages>>

VARIABLES
    files,           \* identity -> the complete lines of that file
    path_identity,   \* identity of the file now at the watched path
    handle,          \* the tailer's read handle: identity and position
    emitted,         \* raw_line of the StreamEvents enqueued, in order
    appended         \* history: lines appended at the path since attach

tailVars == <<files, path_identity, handle, emitted, appended>>

VARIABLES
    task,          \* state of each submitted run_detector task
    task_scores,   \* the scores a returned task produced
    futures_seen,  \* futures the gathering loop has been handed
    gathered,      \* names stored in all_scores by the gathering loop
    epc,           \* where _hybrid_ensemble_detect stands
    blend          \* history: what the combination step read

barrierVars == <<task, task_scores, futures_seen, gathered, epc, blend>>

VARIABLES
    shared_file,      \* the blocks of the model file at the detector's path
    writer,           \* each writer: where it stands and its file offset
    concurrent_load   \* history: one load and the file it read

lockVars == <<shared_file, writer, concurrent_load>>

VARIABLES
    chunking   \* the chunk loop of one analyze_logs call

chunkVars == <<chunking>>

VARIABLES
    package_file,      \* the update package at package_path
    upc,               \* where apply_update stands
    updates,           \* number of apply_update calls so far
    verified_payload,  \* history: payload verified in this call
    applied_payload    \* history: payload applied in this call

updateVars == <<package_file, upc, updates, verified_payload, applied_payload>>

VARIABLES
    hotplug_running,  \* DeviceMonitor._hotplug_running
    hotplug_loops,    \* the threads started on _hotplug_loop, in start order
    monitor_pc,       \* the caller: ready for a call, or inside stop's join
    monitor_calls,    \* number of start and stop calls made
    stop_returned     \* the last call that returned is a stop

hotplugVars == <<hotplug_running, hotplug_loops, monitor_pc, monitor_calls, stop_returned>>

VARIABLES
    table_ids,  \* the ids of the rows in the table
    batch       \* each caller's insert_batch call: where it stands, its ids

idVars == <<table_ids, batch>>

VARIABLES
    summary   \* history: one session's scores, stored bands and summary

summaryVars == <<summary>>

baseVars == <<hubVars, exportVars, sessionVars, storeVars>>

secondVars == <<detectVars, queryVars, soupVars, nodeVars, tailVars>>

thirdVars == <<barrierVars, lockVars, chunkVars, updateVars, hotplugVars, idVars, summaryVars>>

\* The state of the components next to hub, export, session and store.
laterVars == <<secondVars, thirdVars>>

\* What the steps of one component leave unchanged.
notDetect == <<baseVars, queryVars, soupVars, nodeVars, tailVars, thirdVars>>
notQuery  == <<baseVars, detectVars, soupVars, nodeVars, tailVars, thirdVars>>
notSoup   == <<baseVars, detectVars, queryVars, nodeVars, tailVars, thirdVars>>
notNode   == <<baseVars, detectVars, queryVars, soupVars, tailVars, thirdVars>>
notTail   == <<baseVars, detectVars, queryVars, soupVars, nodeVars, thirdVars>>

notBarrier == <<baseVars, secondVars, lockVars, chunkVars, updateVars, hotplugVars, idVars, summaryVars>>
notLock == <<baseVars, secondVars, barrierVars, chunkVars, updateVars, hotplugVars, idVars, summaryVars>>
notChunk == <<baseVars, secondVars, barrierVars, lockVars, updateVars, hotplugVars, idVars, summaryVars>>
notUpdate == <<baseVars, secondVars, barrierVars, lockVars, chunkVars, hotplugVars, idVars, summaryVars>>
notHotplug == <<baseVars, secondVars, barrierVars, lockVars, chunkVars, updateVars, idVars, summaryVars>>
notId == <<baseVars, secondVars, barrierVars, lockVars, chunkVars, updateVars, hotplugVars, summaryVars>>
notSummary == <<baseVars, secondVars, barrierVars, lockVars, chunkVars, updateVars, hotplugVars, idVars>>

vars == <<baseVars, laterVars>>

(***************************************************************************)
(* Values.                                                                 *)
(***************************************************************************)
\* anomaly.get('id') of an entry without 'id': Python None, SQL NULL.
\* Ids of real anomalies are the primary keys 1, 2, ... of table anomalies.
NoId == 0

\* SQL comparison `a = b`: never true when either side is NULL.
SqlEq(a, b) == a # NoId /\ b # NoId /\ a = b

None == "None"

Nodes == {"nodeA", "nodeB", "nodeC"}

(***************************************************************************)
(* Signatures (core/security.py).  RSA-PSS is modelled as an ideal         *)
(* signature scheme: a signature names the key pair that made it and the   *)
(* exact bytes it was made over, and verification compares both.           *)
(***************************************************************************)
TerminalKey == "terminal-key"   \* the key pair in settings.KEYS_DIR
RogueKey    == "rogue-key"      \* any other key pair

NoSignature == [key |-> None, over |-> None]

sign_data(private_key, data) == [key |-> private_key, over |-> data]

\* public_key.verify(signature, data, PSS, SHA256): raises InvalidSignature
\* (FALSE here) unless the signature was made by the matching private key
\* over exactly these bytes.
verify(public_key, data, signature) ==
    signature # NoSignature /\ signature.key = public_key /\ signature.over = data

(***************************************************************************)
(* JSON text.  A serialization is the order its keys are written in, its   *)
(* separators and the values written; two texts are the same bytes iff     *)
(* all three agree.                                                        *)
(***************************************************************************)
\* SyncPackage.to_dict builds the dict in this order; Python dicts keep it.
PackageKeys ==
    <<"package_id", "source_node", "target_node", "sync_method",
      "created_at", "anomalies", "logs_summary", "metadata">>

\* The same keys in sorted order.
SortedPackageKeys ==
    <<"anomalies", "created_at", "logs_summary", "metadata",
      "package_id", "source_node", "sync_method", "target_node">>

\* The package without its signature field.
BodyOf(pkg) ==
    [package_id   |-> pkg.package_id,
     source_node  |-> pkg.source_node,
     target_node  |-> pkg.target_node,
     sync_method  |-> pkg.sync_method,
     created_at   |-> pkg.created_at,
     anomalies    |-> pkg.anomalies,
     logs_summary |-> pkg.logs_summary,
     metadata     |-> pkg.metadata]

\* json.dumps(d): insertion order, separators ', ' and ': '.
json_dumps(body) == [order |-> PackageKeys, sep |-> "spaced", content |-> body]

\* The canonical encoding: keys sorted, no whitespace.
CanonicalJson(body) == [order |-> SortedPackageKeys, sep |-> "compact", content |-> body]

(***************************************************************************)
(* Sync package files, as json.load returns them (hub_service.py:197).     *)
(***************************************************************************)
\* logs_summary: the exporting node's info.  `has` is the set of keys the
\* dict holds; an empty dict is falsy.
NodeInfo(node, n)      == [has |-> {"node_id", "hostname", "total_anomalies"},
                           node_id |-> node, total_anomalies |-> n]
NodeInfoNoHost(node, n) == [has |-> {"node_id", "total_anomalies"},
                           node_id |-> node, total_anomalies |-> n]
EmptyInfo              == [has |-> {}, node_id |-> None, total_anomalies |-> 0]

\* One entry of the package's anomalies list.
PkgAnomaly(id, technique, tactic) ==
    [id |-> id, mitre_technique_id |-> technique, mitre_tactic |-> tactic]

MkPackage(pid, node, anoms, info, sig) ==
    [package_id   |-> pid,
     source_node  |-> node,
     target_node  |-> "hub",
     sync_method  |-> "usb",
     created_at   |-> 0,
     anomalies    |-> anoms,
     logs_summary |-> info,
     metadata     |-> "exported_at",
     signature    |-> sig]

\* (technique, tactic) as the exporting node's taxonomy table gave them; the
\* tactic is the first kill-chain phase of that node's taxonomy file
\* (mitre_service.py:81-83), so two nodes can disagree on it.
TechniqueTactics ==
    {<<None, None>>, <<"T1", "TA1">>, <<"T1", "TA2">>, <<"T2", "TA1">>}

SeqsUpTo(S, n) == UNION {[1..k -> S] : k \in 0..n}

\* The signature fields a file can carry: none, the terminal's signature over
\* the canonical encoding of the file's own fields, that signature made over
\* other content (the file was changed after signing), or another key's.
SignaturesFor(body) ==
    {NoSignature,
     sign_data(TerminalKey, CanonicalJson(body)),
     sign_data(TerminalKey, CanonicalJson([body EXCEPT !.anomalies = <<>>])),
     sign_data(RogueKey, CanonicalJson(body))}

WithSignatures(unsigned) ==
    {[unsigned EXCEPT !.signature = sig] : sig \in SignaturesFor(BodyOf(unsigned))}

\* The package files of SpecHub: two nodes, ids present or missing, the node
\* info full, without hostname or empty, every kind of signature.
InfosFor(node, n) == {NodeInfo(node, n), NodeInfoNoHost(node, n), EmptyInfo}

HubPackages ==
    UNION {UNION {WithSignatures(MkPackage(pid, node, anoms, info, NoSignature)) :
                  info \in InfosFor(node, Len(anoms))} :
           pid \in 0..MaxPkgId,
           node \in {"nodeA", "nodeB"},
           anoms \in SeqsUpTo({PkgAnomaly(id, "T1", "TA1") : id \in {NoId, 1}}, MaxPkgAnoms)}

(***************************************************************************)
(* HubService.register_remote_node (hub_service.py:77-102).                *)
(***************************************************************************)
\* QuorumNode.from_dict reads d['node_id'] and d['hostname']: KeyError when
\* either is missing (models/node.py:82-83).
from_dict_raises(node_data) ==
    ~({"node_id", "hostname"} \subseteq node_data.has)

\* d.get('total_anomalies', 0)
TotalAnomaliesOf(node_data) ==
    IF "total_anomalies" \in node_data.has THEN node_data.total_anomalies ELSE 0

\* The registry after the upsert: an existing row is updated (status inactive,
\* last_seen, totals), a new one inserted with last_sync NULL.
register_remote_node(registry, node_data, t) ==
    LET id == node_data.node_id
        n  == TotalAnomaliesOf(node_data)
    IN  IF id \in DOMAIN registry
        THEN [registry EXCEPT ![id] = [@ EXCEPT !.status = "inactive",
                                                !.last_seen = t,
                                                !.total_anomalies = n]]
        ELSE [x \in DOMAIN registry \cup {id} |->
                IF x = id
                THEN [status |-> "inactive", last_seen |-> t,
                      last_sync |-> 0, total_anomalies |-> n]
                ELSE registry[x]]

(***************************************************************************)
(* The merge loop of import_sync_package (hub_service.py:208-244).         *)
(***************************************************************************)
\* SELECT 1 FROM hub_anomalies WHERE original_id=? AND source_node=?
ExistsInHub(hub, id, node) ==
    \E i \in 1..Len(hub) :
        SqlEq(hub[i].original_id, id) /\ hub[i].source_node = node

\* The unique index idx_hub_anomalies_original_source (database.py:250-253)
\* rejects a row whose (original_id, source_node) is already stored; as in
\* SQL, rows with a NULL original_id never collide.
UniqueIndexRejects(hub, row) ==
    \E i \in 1..Len(hub) :
        SqlEq(hub[i].original_id, row.original_id)
        /\ hub[i].source_node = row.source_node

HubRow(anomaly, node, t) ==
    [original_id        |-> anomaly.id,
     source_node        |-> node,
     mitre_technique_id |-> anomaly.mitre_technique_id,
     mitre_tactic       |-> anomaly.mitre_tactic,
     imported_at        |-> t]

\* One iteration: skip an anomaly already imported, insert otherwise; an
\* insert the index rejects raises inside the try and is only logged.
MergeOne(acc, anomaly, node, t) ==
    IF ExistsInHub(acc.hub, anomaly.id, node) THEN acc
    ELSE IF UniqueIndexRejects(acc.hub, HubRow(anomaly, node, t)) THEN acc
    ELSE [hub |-> Append(acc.hub, HubRow(anomaly, node, t)), merged |-> acc.merged + 1]

RECURSIVE MergeFrom(_, _, _, _, _)
MergeFrom(acc, anoms, i, node, t) ==
    IF i > Len(anoms) THEN acc
    ELSE MergeFrom(MergeOne(acc, anoms[i], node, t), anoms, i + 1, node, t)

MergeAnomalies(hub, anoms, node, t) ==
    MergeFrom([hub |-> hub, merged |-> 0], anoms, 1, node, t)

(***************************************************************************)
(* The sync log (hub_service.py:246-256, database.py:222-233).             *)
(***************************************************************************)
\* package_dict.get('package_id', str(uuid.uuid4())): a fresh uuid differs from
\* every id in a file and from every uuid drawn before.
SyncIdOf(pkg, t) == IF pkg.package_id = NoId THEN MaxPkgId + t ELSE pkg.package_id

\* sync_id is the table's PRIMARY KEY: a second row with it is rejected.
SyncLogRejects(log, sync_id) == \E i \in 1..Len(log) : log[i].sync_id = sync_id

SyncLogRow(pkg, merged, t, this_node) ==
    [sync_id |-> SyncIdOf(pkg, t), source_node |-> pkg.source_node,
     target_node |-> this_node, sync_method |-> "usb",
     anomalies_synced |-> merged, synced_at |-> t]

\* UPDATE node_registry SET last_sync=?, total_anomalies=? WHERE node_id=?
UpdateNodeStats(registry, node, info, t) ==
    IF node \in DOMAIN registry
    THEN [registry EXCEPT ![node] = [@ EXCEPT !.last_sync = t,
                                              !.total_anomalies = TotalAnomaliesOf(info)]]
    ELSE registry

(***************************************************************************)
(* HubService.get_cross_node_correlations (hub_service.py:326-363).        *)
(***************************************************************************)
\* WHERE mitre_technique_id IS NOT NULL GROUP BY mitre_technique_id, mitre_tactic
CorrelationGroups(hub) ==
    {<<hub[i].mitre_technique_id, hub[i].mitre_tactic>> :
        i \in {j \in 1..Len(hub) : hub[j].mitre_technique_id # None}}

GroupRows(hub, g) ==
    {i \in 1..Len(hub) : hub[i].mitre_technique_id = g[1] /\ hub[i].mitre_tactic = g[2]}

\* COUNT(DISTINCT source_node)
GroupNodes(hub, g) == {hub[i].source_node : i \in GroupRows(hub, g)}

\* 'CRITICAL' if c['node_count'] >= 3 else 'HIGH'
ThreatLevel(node_count) == IF node_count >= 3 THEN "CRITICAL" ELSE "HIGH"

\* One result row per group that HAVING node_count >= 2 keeps.
get_cross_node_correlations(hub) ==
    {[mitre_technique_id |-> g[1],
      mitre_tactic       |-> g[2],
      node_count         |-> Cardinality(GroupNodes(hub, g)),
      total_hits         |-> Cardinality(GroupRows(hub, g)),
      affected_nodes     |-> GroupNodes(hub, g),
      threat_level       |-> ThreatLevel(Cardinality(GroupNodes(hub, g)))] :
        g \in {h \in CorrelationGroups(hub) : Cardinality(GroupNodes(hub, h)) >= 2}}

NotAsked == [asked |-> FALSE, rows |-> {}]

(***************************************************************************)
(* HubService.import_sync_package (hub_service.py:190-270), one call.      *)
(* Every statement runs in autocommit, so what was written before an       *)
(* exception stays written.                                                *)
(***************************************************************************)
ThisNode == "hub-node"

ImportResult(pkg, hub, registry, log, t) ==
    LET info   == pkg.logs_summary
        reg1   == IF info.has # {} THEN register_remote_node(registry, info, t)
                  ELSE registry
        m      == MergeAnomalies(hub, pkg.anomalies, pkg.source_node, t)
    IN  IF info.has # {} /\ from_dict_raises(info)
        THEN [outcome |-> "raised", hub |-> hub, registry |-> registry, log |-> log]
        ELSE IF SyncLogRejects(log, SyncIdOf(pkg, t))
        THEN [outcome |-> "raised", hub |-> m.hub, registry |-> reg1, log |-> log]
        ELSE [outcome  |-> "ok",
              hub      |-> m.hub,
              registry |-> UpdateNodeStats(reg1, pkg.source_node, info, t),
              log      |-> Append(log, SyncLogRow(pkg, m.merged, t, ThisNode))]

import_sync_package(pkg) ==
    LET t == now + 1
        r == ImportResult(pkg, hub_anomalies, node_registry, node_sync_log, t)
    IN  /\ hub_anomalies' = r.hub
        /\ node_registry' = r.registry
        /\ node_sync_log' = r.log
        /\ now' = t
        /\ last' = [pkg          |-> pkg,
                    outcome      |-> r.outcome,
                    prev         |-> last.pkg,
                    prev_outcome |-> last.outcome,
                    hub_before   |-> hub_anomalies,
                    reg_before   |-> node_registry,
                    log_before   |-> node_sync_log]
        /\ correlations' = NotAsked
        /\ UNCHANGED <<exportVars, sessionVars, storeVars, laterVars>>

NoPackage == MkPackage(NoId, None, <<>>, EmptyInfo, NoSignature)

NoImport ==
    [pkg |-> NoPackage, outcome |-> None, prev |-> NoPackage, prev_outcome |-> None,
     hub_before |-> <<>>, reg_before |-> <<>>, log_before |-> <<>>]

InitHubVars ==
    /\ hub_anomalies = <<>>
    /\ node_registry = <<>>
    /\ node_sync_log = <<>>
    /\ now = 0
    /\ last = NoImport
    /\ correlations = NotAsked

(***************************************************************************)
(* HubService.export_sync_package (hub_service.py:117-186), one call.      *)
(***************************************************************************)
\* A TIMESTAMP column comes back from DuckDB as a datetime object;
\* json.dump(..., default=str) writes it as a string.
DateTime(t) == [py |-> "datetime", at |-> t]
Str(v)      == [py |-> "str", at |-> v.at]

\* A row of SELECT a.*, l.timestamp, ... FROM anomalies a JOIN logs l.
LocalRow(id, technique, tactic, t) ==
    [id |-> id, mitre_technique_id |-> technique, mitre_tactic |-> tactic,
     detected_at |-> DateTime(t)]

\* json.dumps without default= raises TypeError on a datetime.
JsonSerializable(rows) == \A i \in 1..Len(rows) : rows[i].detected_at.py # "datetime"

\* What json.dump(..., default=str) writes and json.load reads back.
Written(rows) == [i \in 1..Len(rows) |-> [rows[i] EXCEPT !.detected_at = Str(@)]]

\* package.to_dict() for this node's anomalies.
PackageDict(node, rows, n) ==
    MkPackage(MaxPkgId + n, node, rows, NodeInfo(node, Len(rows)), NoSignature)

\* The bytes handed to CryptoUtils.sign_data (hub_service.py:174).
SignedBytes(package_dict) == json_dumps(BodyOf(package_dict))

\* The signature field of the exported dict: set only when signing was asked
\* for, the private key file could be read and json.dumps did not raise; any
\* exception is logged and the package is exported unsigned.
ExportSignature(package_dict, sign, key_readable) ==
    IF sign /\ key_readable /\ JsonSerializable(package_dict.anomalies)
    THEN sign_data(TerminalKey, SignedBytes(package_dict))
    ELSE NoSignature

\* The .qsp file as a reader parses it.
ExportedFile(package_dict, sign, key_readable) ==
    [package_dict EXCEPT
        !.signature = ExportSignature(package_dict, sign, key_readable),
        !.anomalies = Written(@)]

export_sync_package(sign, key_readable) ==
    /\ exports < MaxExports
    /\ exports' = exports + 1
    /\ qsp' = [written |-> TRUE, sign |-> sign, key_readable |-> key_readable,
               file |-> ExportedFile(PackageDict("nodeA", local_anomalies, exports + 1),
                                     sign, key_readable)]
    /\ UNCHANGED <<local_anomalies, hubVars, sessionVars, storeVars, laterVars>>

ExportSyncPackage == \E sign \in BOOLEAN, key_readable \in BOOLEAN :
                        export_sync_package(sign, key_readable)

\* An analysis on the terminal stores one more anomaly.
StoreLocalAnomaly ==
    /\ Len(local_anomalies) < MaxLocalAnoms
    /\ \E tt \in TechniqueTactics :
          local_anomalies' = Append(local_anomalies,
                                LocalRow(Len(local_anomalies) + 1, tt[1], tt[2], exports))
    /\ UNCHANGED <<exports, qsp, hubVars, sessionVars, storeVars, laterVars>>

InitExportVars ==
    /\ local_anomalies = <<>>
    /\ exports = 0
    /\ qsp = [written |-> FALSE, sign |-> FALSE, key_readable |-> FALSE, file |-> NoPackage]


(***************************************************************************)
(* AnalysisService (services/analysis_service.py).  analyze_logs runs as a *)
(* sequence of steps; pc names the next one.  Every step that can raise    *)
(* has a failing outcome that enters the except handler of lines 182-185.  *)
(***************************************************************************)
EmptyMeta == [has_error |-> FALSE, error |-> ""]

\* str(e) of the exception a step raised: a message, or the empty string of
\* an exception built without arguments.
ErrorStrings == {"", "error"}

\* _create_session (analysis_service.py:248-267): the row as inserted.
NewSessionRow(t) ==
    [status |-> "running", start_time |-> t, end_time |-> 0,
     logs_analyzed |-> 0, anomalies_detected |-> 0, metadata |-> EmptyMeta]

\* The keyword arguments of _update_session; has_counts says whether
\* logs_analyzed and anomalies_detected were passed (are not None).
CloseArgs(total, n) ==
    [status |-> "completed", has_counts |-> TRUE,
     logs_analyzed |-> total, anomalies_detected |-> n, error |-> ""]
FailArgs(e) ==
    [status |-> "failed", has_counts |-> FALSE,
     logs_analyzed |-> 0, anomalies_detected |-> 0, error |-> e]

\* _update_session (analysis_service.py:269-301): the row after the UPDATE.
\* `if error:` is false for the empty string, so metadata is then left alone.
UpdatedRow(row, args, t) ==
    [row EXCEPT
        !.status = args.status,
        !.logs_analyzed = IF args.has_counts THEN args.logs_analyzed ELSE @,
        !.anomalies_detected = IF args.has_counts THEN args.anomalies_detected ELSE @,
        !.end_time = IF args.status = "completed" THEN t ELSE @,
        !.metadata = IF args.error # "" THEN [has_error |-> TRUE, error |-> args.error]
                     ELSE @]

\* UPDATE analysis_sessions ... WHERE session_id = ?: no row, no change.
_update_session(sessions, sid, args, t) ==
    IF sid \in DOMAIN sessions
    THEN [sessions EXCEPT ![sid] = UpdatedRow(@, args, t)]
    ELSE sessions

NoCall == [sid |-> 0, loaded |-> FALSE, total_logs |-> 0, found |-> <<>>,
           built_at |-> 0, err |-> "", taxonomy_unavailable |-> FALSE]

NoResult == [kind |-> None, session_id |-> 0, status |-> None,
             logs_analyzed |-> 0, anomalies_detected |-> 0]

InitSessionVars ==
    /\ analysis_sessions = <<>>
    /\ anomalies = <<>>
    /\ pc = "idle"
    /\ call = NoCall
    /\ started = 0
    /\ clock = 0
    /\ result = NoResult
    /\ returned_ids = {}

Tick == clock' = clock + 1

\* The step raised: control passes to `except Exception as e`.
Raise(e) ==
    /\ pc' = "handler"
    /\ call' = [call EXCEPT !.err = e]

\* analyze_logs is entered: a fresh uuid4 session id (lines 42-48).
StartAnalysis ==
    /\ pc \in {"idle", "returned", "raised"}
    /\ started < MaxSessions
    /\ started' = started + 1
    /\ call' = [NoCall EXCEPT !.sid = started + 1]
    /\ pc' = "create"
    /\ result' = NoResult
    /\ Tick
    /\ UNCHANGED <<analysis_sessions, anomalies, returned_ids, hubVars, exportVars, storeVars, laterVars>>

\* line 51: the session row is inserted, or the insert raises.
CreateSession ==
    /\ pc = "create"
    /\ \/ /\ analysis_sessions' =
               [s \in DOMAIN analysis_sessions \cup {call.sid} |->
                   IF s = call.sid THEN NewSessionRow(clock) ELSE analysis_sessions[s]]
          /\ pc' = "load"
          /\ UNCHANGED call
       \/ /\ \E e \in ErrorStrings : Raise(e)
          /\ UNCHANGED analysis_sessions
    /\ Tick
    /\ UNCHANGED <<anomalies, started, result, returned_ids, hubVars, exportVars, storeVars, laterVars>>

\* An empty window treated as an error that leaves analyze_logs.
EmptyWindowRaises(sid) ==
    [kind |-> "raised", session_id |-> sid, status |-> None,
     logs_analyzed |-> 0, anomalies_detected |-> 0]

\* lines 55-62: the result dict returned for a window without logs.
EmptyWindowResult(sid) ==
    [kind |-> "returned", session_id |-> sid, status |-> "completed",
     logs_analyzed |-> 0, anomalies_detected |-> 0]

\* lines 53-62: the logs of the window are loaded; an empty window returns at
\* once.  _load_logs wraps any error as DatabaseError("Log loading failed: ...").
LoadLogs ==
    /\ pc = "load"
    /\ \/ /\ \E n \in 1..MaxLogs :
                call' = [call EXCEPT !.loaded = TRUE, !.total_logs = n]
          /\ pc' = "extract"
          /\ UNCHANGED <<result, returned_ids>>
       \/ /\ call' = [call EXCEPT !.loaded = TRUE, !.total_logs = 0]
          /\ pc' = IF EmptyWindowResult(call.sid).kind = "returned"
                   THEN "returned" ELSE "raised"
          /\ result' = EmptyWindowResult(call.sid)
          /\ returned_ids' = IF EmptyWindowResult(call.sid).kind = "returned"
                             THEN returned_ids \cup {call.sid} ELSE returned_ids
       \/ /\ Raise("Log loading failed")
          /\ UNCHANGED <<result, returned_ids>>
    /\ Tick
    /\ UNCHANGED <<analysis_sessions, anomalies, started, hubVars, exportVars, storeVars, laterVars>>

\* lines 74-100: feature extraction of the chunk. A window below the chunking
\* threshold is one chunk, so the loop body runs once.
ExtractFeatures ==
    /\ pc = "extract"
    /\ \/ pc' = "detect" /\ UNCHANGED call
       \/ \E e \in ErrorStrings : Raise(e)
    /\ Tick
    /\ UNCHANGED <<analysis_sessions, anomalies, started, result, returned_ids,
                   hubVars, exportVars, storeVars, laterVars>>

\* The ascending sequence of the members of a set of log ids.
RECURSIVE SortedSeq(_)
SortedSeq(S) ==
    IF S = {} THEN <<>>
    ELSE LET m == CHOOSE x \in S : \A y \in S : x <= y
         IN  <<m>> \o SortedSeq(S \ {m})

\* lines 102-124: detection and _build_anomalies: one anomaly for every log
\* of the chunk with label -1 and score >= threshold, in chunk order.
DetectAndBuild ==
    /\ pc = "detect"
    /\ \/ /\ \E flagged \in SUBSET (1..call.total_logs) :
                call' = [call EXCEPT !.found = SortedSeq(flagged), !.built_at = clock]
          /\ pc' = "insert"
       \/ \E e \in ErrorStrings : Raise(e)
    /\ Tick
    /\ UNCHANGED <<analysis_sessions, anomalies, started, result, returned_ids,
                   hubVars, exportVars, storeVars, laterVars>>

\* DatabaseManager._get_next_id (database.py:371-374): COALESCE(MAX(id), 0) + 1
NextId(table) ==
    IF table = <<>> THEN 1
    ELSE 1 + (CHOOSE m \in {table[i].id : i \in 1..Len(table)} :
                \A i \in 1..Len(table) : table[i].id <= m)

\* The batch with every anomaly of the session in it twice.
AnomalyRowsTwice(found, first_id, sid, t) ==
    [i \in 1..(2 * Len(found)) |->
        [id |-> first_id + i - 1, log_id |-> found[((i - 1) % Len(found)) + 1],
         detected_at |-> t, mitre_technique_id |-> None, mitre_tactic |-> None,
         session |-> sid]]

\* Anomaly.to_dict plus the id insert_batch assigns (database.py:348-350);
\* detected_at is the time the Anomaly object was built.
AnomalyRows(found, first_id, sid, t) ==
    [i \in 1..Len(found) |->
        [id |-> first_id + i - 1, log_id |-> found[i], detected_at |-> t,
         mitre_technique_id |-> None, mitre_tactic |-> None, session |-> sid]]

\* lines 134-136: the batch insert of the session's anomalies.  insert_batch
\* hands the rows to executemany (database.py:311-318, 357-362) on a
\* connection in autocommit, with no BEGIN / ROLLBACK around them: when the
\* statement raises at some row, the rows before it stay in the table.
InsertAnomalies ==
    /\ pc = "insert"
    /\ \/ /\ anomalies' = IF call.found = <<>> THEN anomalies
                          ELSE anomalies \o AnomalyRows(call.found, NextId(anomalies),
                                                        call.sid, call.built_at)
          /\ pc' = "map"
          /\ UNCHANGED call
       \/ /\ call.found # <<>>
          /\ \E e \in ErrorStrings : Raise(e)
          /\ \E k \in 0..(Len(call.found) - 1) :
                anomalies' = anomalies \o
                    SubSeq(AnomalyRows(call.found, NextId(anomalies), call.sid,
                                       call.built_at), 1, k)
    /\ Tick
    /\ UNCHANGED <<analysis_sessions, started, result, returned_ids, hubVars, exportVars, storeVars, laterVars>>

\* UPDATE anomalies SET mitre_technique_id = ?, mitre_tactic = ? WHERE log_id = ?
\* for every log the mapper found a technique for (lines 316-330).
MappedRows(table, mapped) ==
    [i \in 1..Len(table) |->
        IF table[i].log_id \in mapped
        THEN [table[i] EXCEPT !.mitre_technique_id = "T1", !.mitre_tactic = "TA1"]
        ELSE table[i]]

\* What the technique mapper finds when a mapping step starts
\* (mitre_service.py:25-65, 146-151): the service's techniques_loaded flag,
\* whether table mitre_techniques has rows, the data file (missing, without
\* attack patterns, or with them) and whether a download can succeed.
TaxonomySituations ==
    [techniques_loaded : BOOLEAN, table_rows : BOOLEAN,
     file : {"missing", "no techniques", "techniques"}, download : BOOLEAN]

\* The claim's case: the table is empty and there is nothing to load.
TaxonomyUnavailable(sit) ==
    /\ ~sit.table_rows
    /\ \/ sit.file = "no techniques"
       \/ sit.file = "missing" /\ ~sit.download

\* load_mitre_data (mitre_service.py:25-65): a missing file is downloaded
\* first, and a failed download raises ConfigurationError; otherwise the
\* table is replaced by the techniques of the file.
load_mitre_data(sit) ==
    IF sit.file = "missing" /\ ~sit.download THEN "raises"
    ELSE IF sit.file = "no techniques" THEN "empty table"
    ELSE "table"

\* map_log_to_techniques (mitre_service.py:136-177) for the first anomaly:
\* the table is loaded when the flag is unset and the table is empty; every
\* match is a row fetched from mitre_techniques.
map_log_to_techniques(sit) ==
    IF ~sit.techniques_loaded /\ ~sit.table_rows THEN load_mitre_data(sit)
    ELSE IF sit.table_rows THEN "table" ELSE "empty table"

\* _map_to_mitre were its try/except absent.
MapperRaisePropagates(outcome) == outcome # "raises"

\* _map_to_mitre (analysis_service.py:313-332): whatever the mapper raises
\* is caught and logged inside.
MapperRaiseCaught(outcome) == TRUE

\* line 138: _map_to_mitre over the session's anomalies.
MapToMitre ==
    /\ pc = "map"
    /\ \E sit \in TaxonomySituations :
          LET outcome == map_log_to_techniques(sit) IN
            IF MapperRaiseCaught(outcome)
            THEN /\ \E mapped \in SUBSET {call.found[i] : i \in 1..Len(call.found)} :
                       /\ outcome # "table" => mapped = {}
                       /\ anomalies' = MappedRows(anomalies, mapped)
                 /\ call' = [call EXCEPT
                               !.taxonomy_unavailable = TaxonomyUnavailable(sit)]
                 /\ pc' = "close"
            ELSE /\ pc' = "handler"
                 /\ call' = [call EXCEPT
                               !.err = "error",
                               !.taxonomy_unavailable = TaxonomyUnavailable(sit)]
                 /\ UNCHANGED anomalies
    /\ Tick
    /\ UNCHANGED <<analysis_sessions, started, result, returned_ids,
                   hubVars, exportVars, storeVars, laterVars>>

\* lines 140-147: the session is closed as completed, or the UPDATE raises.
CloseSession ==
    /\ pc = "close"
    /\ \/ /\ analysis_sessions' =
               _update_session(analysis_sessions, call.sid,
                               CloseArgs(call.total_logs, Len(call.found)), clock)
          /\ pc' = "report"
          /\ UNCHANGED call
       \/ /\ \E e \in ErrorStrings : Raise(e)
          /\ UNCHANGED analysis_sessions
    /\ Tick
    /\ UNCHANGED <<anomalies, started, result, returned_ids, hubVars, exportVars, storeVars, laterVars>>

\* lines 171-180: the result dict of a completed analysis.
Return ==
    /\ pc' = "returned"
    /\ result' = [kind |-> "returned", session_id |-> call.sid,
                  status |-> "completed", logs_analyzed |-> call.total_logs,
                  anomalies_detected |-> Len(call.found)]
    /\ returned_ids' = returned_ids \cup {call.sid}
    /\ UNCHANGED call

\* The report step were its try/except (lines 161-167) absent: a failing
\* report generation would reach the handler of analyze_logs.
ReportUncaught ==
    /\ pc = "report"
    /\ \E report_fails \in BOOLEAN :
          IF report_fails /\ call.found # <<>>
          THEN Raise("report") /\ UNCHANGED <<result, returned_ids>>
          ELSE Return
    /\ Tick
    /\ UNCHANGED <<analysis_sessions, anomalies, started, hubVars, exportVars, storeVars, laterVars>>

\* lines 149-180: the summary (pure arithmetic over the anomalies) and the
\* automatic report, whose failure is caught and logged (lines 160-167).
ReportAndReturn ==
    /\ pc = "report"
    /\ \E report_fails \in BOOLEAN : Return
    /\ Tick
    /\ UNCHANGED <<analysis_sessions, anomalies, started, hubVars, exportVars, storeVars, laterVars>>

\* lines 182-185: the handler marks the session failed and raises
\* AIEngineError; when its own UPDATE raises, that exception leaves instead.
Handler ==
    /\ pc = "handler"
    /\ \/ analysis_sessions' =
              _update_session(analysis_sessions, call.sid, FailArgs(call.err), clock)
       \/ UNCHANGED analysis_sessions
    /\ pc' = "raised"
    /\ result' = [NoResult EXCEPT !.kind = "raised", !.session_id = call.sid]
    /\ Tick
    /\ UNCHANGED <<anomalies, call, started, returned_ids, hubVars, exportVars, storeVars, laterVars>>

NextSession ==
    \/ StartAnalysis
    \/ CreateSession
    \/ LoadLogs
    \/ ExtractFeatures
    \/ DetectAndBuild
    \/ InsertAnomalies
    \/ MapToMitre
    \/ CloseSession
    \/ ReportAndReturn
    \/ Handler


(***************************************************************************)
(* The model store: build_model_metadata / validate_model_metadata         *)
(* (ai_engine/utils/performance.py) and save / load of the three base      *)
(* detectors.  A model file is missing, undeserializable, or an object:    *)
(* a dict with top-level keys, a trained-state payload and metadata, or a  *)
(* plain object (no keys).                                                 *)
(***************************************************************************)
Detectors == {"isolation_forest", "statistical", "one_class_svm"}

\* The hyperparameter dicts of _model_params(), two distinct settings.
Hypers == {"h1", "h2"}

\* n_features=None of load().
NoArity == 0

MODEL_METADATA_VERSION == "1.0"

NoChecksum == <<>>

\* sha256 of json.dumps(metadata without "checksum", sort_keys=True): one
\* digest per content, different contents have different digests.
Digest(m) == <<m.model_name, m.metadata_version, m.n_features, m.params, m.created_at>>

\* build_model_metadata (performance.py:117-134)
build_model_metadata(model_name, n_features, params, t) ==
    LET metadata == [present |-> TRUE, model_name |-> model_name,
                     metadata_version |-> MODEL_METADATA_VERSION,
                     n_features |-> n_features, params |-> params,
                     created_at |-> t, checksum |-> NoChecksum]
    IN  [metadata EXCEPT !.checksum = Digest(metadata)]

\* data.get("metadata") of a dict without that key, or an empty dict.
NoMetadata == [present |-> FALSE, model_name |-> None,
               metadata_version |-> None, n_features |-> 0, params |-> None,
               created_at |-> 0, checksum |-> NoChecksum]

\* validate_model_metadata with the comparison of the digest left out.
validate_without_digest(metadata, model_name, n_features, params) ==
    /\ metadata.present
    /\ metadata.checksum # NoChecksum
    /\ metadata.model_name = model_name
    /\ metadata.n_features = n_features
    /\ metadata.params = params

\* validate_model_metadata (performance.py:137-159)
validate_model_metadata(metadata, model_name, n_features, params) ==
    /\ metadata.present
    /\ metadata.checksum # NoChecksum
    /\ Digest(metadata) = metadata.checksum
    /\ metadata.model_name = model_name
    /\ metadata.n_features = n_features
    /\ metadata.params = params

\* The trained state a fit leaves: which estimator, fitted on how many
\* features, under which hyperparameters, on which training set.
Trained(name, n_features, params, fit) ==
    [name |-> name, n_features |-> n_features, params |-> params, fit |-> fit]

NoPayload == Trained(None, 0, None, 0)

\* The top-level keys of the dict each save() dumps next to "metadata".
PayloadKeys(name) ==
    CASE name = "isolation_forest" -> {"model"}
      [] name = "statistical"      -> {"params"}
      [] name = "one_class_svm"    -> {"model", "scaler"}

\* The keys of the bare parameter dict of an unversioned statistical file.
StatKeys == {"method", "threshold", "means", "stds", "q1", "q3", "iqr"}

MissingFile == [kind |-> "missing", keys |-> {}, payload |-> NoPayload,
                metadata |-> NoMetadata]
CorruptFile == [kind |-> "corrupt", keys |-> {}, payload |-> NoPayload,
                metadata |-> NoMetadata]

\* joblib.dump({<payload keys>: ..., "metadata": metadata}, save_path)
SavedFile(d, t) ==
    [kind |-> "object", keys |-> PayloadKeys(d.name) \cup {"metadata"},
     payload |-> d.model,
     metadata |-> build_model_metadata(d.name, d.model.n_features, d.params, t)]

\* A detector as constructed: hyperparameters set, nothing fitted.
Fresh(name, params) ==
    [name |-> name, params |-> params, is_fitted |-> FALSE, model |-> NoPayload]

NoDetector == Fresh(None, None)

\* `if n_features is not None and metadata:` followed by the validation.
MetadataAccepted(d, f, n_features) ==
    (n_features # NoArity /\ f.metadata.present) =>
        validate_model_metadata(f.metadata, d.name, n_features, d.params)

\* IsolationForestDetector.load (isolation_forest.py:135-170)
LoadIsolationForest(d, f, n_features) ==
    CASE f.kind = "missing" -> FALSE
      [] f.kind = "corrupt" -> FALSE
      [] OTHER ->
           IF "model" \in f.keys THEN MetadataAccepted(d, f, n_features)
           ELSE TRUE   \* a plain persisted estimator

\* StatisticalDetector.load (statistical_detector.py:123-162); reading
\* params["method"] ... raises, hence False, when the keys are not there.
LoadStatistical(d, f, n_features) ==
    CASE f.kind = "missing" -> FALSE
      [] f.kind = "corrupt" -> FALSE
      [] OTHER ->
           IF "params" \in f.keys
           THEN MetadataAccepted(d, f, n_features) /\ f.payload.name = "statistical"
           ELSE StatKeys \subseteq f.keys

\* OneClassSVMDetector.load (one_class_svm.py:138-172)
LoadOneClassSVM(d, f, n_features) ==
    CASE f.kind = "missing" -> FALSE
      [] f.kind = "corrupt" -> FALSE
      [] OTHER ->
           IF {"model", "scaler"} \subseteq f.keys
           THEN MetadataAccepted(d, f, n_features)
           ELSE FALSE   \* format not recognized

\* What load() returns for detector d on file f.
load(d, f, n_features) ==
    CASE d.name = "isolation_forest" -> LoadIsolationForest(d, f, n_features)
      [] d.name = "statistical"      -> LoadStatistical(d, f, n_features)
      [] d.name = "one_class_svm"    -> LoadOneClassSVM(d, f, n_features)

\* The detector after load() returned True: the payload is installed; the
\* statistical detector also takes method and threshold from the payload.
AfterLoad(d, f) ==
    [d EXCEPT !.is_fitted = TRUE,
              !.model = f.payload,
              !.params = IF d.name = "statistical" /\ f.payload.params # None
                         THEN f.payload.params ELSE @]

NotSaved  == [done |-> FALSE, file |-> MissingFile, by |-> NoDetector]
NotLoaded == [asked |-> FALSE, file |-> MissingFile, by |-> NoDetector,
              n_features |-> NoArity, ok |-> FALSE]

InitStoreVars ==
    /\ detector = NoDetector
    /\ model_file = MissingFile
    /\ saves = 0
    /\ store_ops = 0
    /\ saved = NotSaved
    /\ loaded = NotLoaded

StoreStep ==
    /\ store_ops < MaxStoreOps
    /\ store_ops' = store_ops + 1

\* A process constructs its detector, or a later one constructs the same kind
\* of detector under other settings; the model path is that detector's.
Construct ==
    /\ StoreStep
    /\ \E name \in Detectors, params \in Hypers :
          /\ detector.name \in {None, name}
          /\ detector # Fresh(name, params)
          /\ detector' = Fresh(name, params)
    /\ UNCHANGED <<model_file, saves, saved, loaded, hubVars, exportVars, sessionVars, laterVars>>

\* fit(X) on a training set of n_features columns.
Fit ==
    /\ StoreStep
    /\ detector.name # None
    /\ \E n \in 1..MaxArity, fit \in 1..MaxFits :
          detector' = [detector EXCEPT
                          !.is_fitted = TRUE,
                          !.model = Trained(detector.name, n, detector.params, fit)]
    /\ detector' # detector
    /\ UNCHANGED <<model_file, saves, saved, loaded, hubVars, exportVars, sessionVars, laterVars>>

\* save(): an unfitted detector writes nothing.
Save ==
    /\ StoreStep
    /\ detector.name # None
    /\ detector.is_fitted
    /\ saves < MaxSaves
    /\ saves' = saves + 1
    /\ model_file' = SavedFile(detector, saves + 1)
    /\ saved' = [done |-> TRUE, file |-> model_file', by |-> detector]
    /\ UNCHANGED <<detector, loaded, hubVars, exportVars, sessionVars, laterVars>>

\* The file is deleted, or truncated so that joblib.load raises.
DamageFile ==
    /\ StoreStep
    /\ model_file.kind = "object"
    /\ model_file' \in {MissingFile, CorruptFile}
    /\ UNCHANGED <<detector, saves, saved, loaded, hubVars, exportVars, sessionVars, laterVars>>

\* A metadata dict with one recorded field changed, or none.
Edited(m) ==
    {m} \cup {[m EXCEPT !.model_name = name] : name \in Detectors}
        \cup {[m EXCEPT !.n_features = n] : n \in 1..MaxArity}
        \cup {[m EXCEPT !.params = params] : params \in Hypers}

\* The metadata of the file is rewritten: a field changed with the checksum
\* left as it was, with the checksum recomputed (the file another detector or
\* another configuration saved), or with the checksum removed.
EditMetadata ==
    /\ StoreStep
    /\ model_file.kind = "object"
    /\ model_file.metadata.present
    /\ \E m \in Edited(model_file.metadata) :
          \E checksum \in {m.checksum, Digest(m), NoChecksum} :
             model_file' = [model_file EXCEPT !.metadata = [m EXCEPT !.checksum = checksum]]
    /\ model_file' # model_file
    /\ UNCHANGED <<detector, saves, saved, loaded, hubVars, exportVars, sessionVars, laterVars>>

\* The file of the older, unversioned layout: the payload without metadata;
\* for the statistical detector the bare parameter dict, for the isolation
\* forest possibly the plain estimator.
UnversionedFile ==
    /\ StoreStep
    /\ model_file.kind = "object"
    /\ \E keys \in {model_file.keys \ {"metadata"}, StatKeys, {}} :
          model_file' = [model_file EXCEPT !.keys = keys, !.metadata = NoMetadata]
    /\ model_file' # model_file
    /\ UNCHANGED <<detector, saves, saved, loaded, hubVars, exportVars, sessionVars, laterVars>>

\* The stored model is replaced, the metadata left as written.
ReplacePayload ==
    /\ StoreStep
    /\ model_file.kind = "object"
    /\ \E n \in 1..MaxArity, fit \in 1..MaxFits :
          /\ model_file' = [model_file EXCEPT
                               !.payload = Trained(@.name, n, @.params, fit)]
          /\ model_file' # model_file
    /\ UNCHANGED <<detector, saves, saved, loaded, hubVars, exportVars, sessionVars, laterVars>>

\* load(n_features=...) or load().
Load ==
    /\ StoreStep
    /\ detector.name # None
    /\ \E n \in {NoArity} \cup 1..MaxArity :
          LET ok == load(detector, model_file, n)
          IN  /\ loaded' = [asked |-> TRUE, file |-> model_file, by |-> detector,
                            n_features |-> n, ok |-> ok]
              /\ detector' = IF ok THEN AfterLoad(detector, model_file) ELSE detector
    /\ UNCHANGED <<model_file, saves, saved, hubVars, exportVars, sessionVars, laterVars>>

NextStore ==
    \/ Construct
    \/ Fit
    \/ Save
    \/ DamageFile
    \/ EditMetadata
    \/ UnversionedFile
    \/ ReplacePayload
    \/ Load

(***************************************************************************)
(* EnsembleDetector (ai_engine/ensemble.py).  Scores are integers: blended *)
(* scores in arbitrary units, calibrated scores in units of 1/10000.       *)
(***************************************************************************)
Max(S) == CHOOSE m \in S : \A x \in S : x <= m
Min(S) == CHOOSE m \in S : \A x \in S : m <= x

Range(v) == {v[i] : i \in DOMAIN v}

\* 0.1 + 0.89 / (1 + exp(-6 (x - 0.5))) for x = k/12, in units of 1/10000.
SigmoidTable ==
    <<1422, 1675, 2060, 2623, 3393, 4360, 5450, 6539, 7506, 8276, 8839, 9224, 9477>>

\* The normalized score itself, neither squashed nor moved into [0.1, 0.99].
NormalizedOnly(num, den) == (10000 * num) \div den

\* The calibrated value of a score normalized to num/den; the twelfths are
\* exact for every den dividing 12, other values fall on the grid point below.
Spread(num, den) == SigmoidTable[((12 * num) \div den) + 1]

\* np.linspace(0.1, 0.9, n)[k], k counted from 0.
Linspace(n, k) == IF n = 1 THEN 1000 ELSE 1000 + (8000 * k) \div (n - 1)

\* The rankings np.argsort(np.argsort(scores)) can produce: an order of the
\* positions 0..n-1 that follows the scores, ties taken in any order.
Rankings(scores) ==
    {r \in [DOMAIN scores -> 0..(Len(scores) - 1)] :
        /\ \A i, j \in DOMAIN scores : (i # j) => r[i] # r[j]
        /\ \A i, j \in DOMAIN scores : (scores[i] < scores[j]) => r[i] < r[j]}

\* _redistribute_scores (ensemble.py:252-263): the vectors it can return.
_redistribute_scores(scores) ==
    IF Len(scores) = 0 THEN {scores}
    ELSE LET min_s == Min(Range(scores))
             max_s == Max(Range(scores))
         IN  IF max_s - min_s = 0
             THEN {[i \in DOMAIN scores |-> Linspace(Len(scores), r[i])] :
                      r \in Rankings(scores)}
             ELSE {[i \in DOMAIN scores |-> Spread(scores[i] - min_s, max_s - min_s)]}

\* The ascending sequence of the values of a vector, repetitions kept.
RECURSIVE SortVector(_)
SortVector(v) ==
    IF Len(v) = 0 THEN <<>>
    ELSE LET i == CHOOSE k \in DOMAIN v : \A j \in DOMAIN v : v[k] <= v[j]
         IN  <<v[i]>> \o SortVector([k \in 1..(Len(v) - 1) |-> IF k < i THEN v[k] ELSE v[k + 1]])

\* 100 * np.percentile(v, 85), linear interpolation between the neighbours
\* of position 0.85 (n - 1) of the sorted vector.
Percentile85x100(v) ==
    LET sorted == SortVector(v)
        pos    == 85 * (Len(v) - 1)
        lo     == (pos \div 100) + 1
        hi     == IF lo < Len(v) THEN lo + 1 ELSE lo
    IN  100 * sorted[lo] + (pos % 100) * (sorted[hi] - sorted[lo])

\* predictions = np.where(final_scores >= threshold, -1, 1)
Labels(final_scores) ==
    [i \in DOMAIN final_scores |->
        IF 100 * final_scores[i] >= Percentile85x100(final_scores) THEN -1 ELSE 1]

Vectors(n, top) == [1..n -> 0..top]

\* self.weights (ensemble.py:72-77), in hundredths.
Weights == [isolation_forest |-> 35, one_class_svm |-> 25,
            statistical |-> 20, keyword |-> 20]

Zeros(n) == [i \in 1..n |-> 0]

\* How run_detector ends for one detector (ensemble.py:152-167): the model
\* was loaded and predicts; load answered False, or raised inside
\* _safe_load, and the detector is fitted and saved; or load (twice, after a
\* TypeError), fit, predict or save raised and the exception leaves the run.
RunOutcomes ==
    {"loaded", "trained", "load_raised_trained",
     "load_raised", "fit_raised", "predict_raised", "save_raised"}

RunFailed(outcome) ==
    outcome \in {"load_raised", "fit_raised", "predict_raised", "save_raised"}

\* The gathering loop without its try/except: one failed run ends detect.
EnsemblePropagates(failed) == failed = {}

\* future.result() inside try/except Exception (ensemble.py:174-186): the
\* exception of a failed run is logged, the loop goes on.
EnsembleSurvives(failed) == TRUE

\* lines 188-190: a detector without scores gets np.zeros(len(X)).
AllScores(n, failed, produced, keyword_scores) ==
    [name \in DOMAIN Weights |->
        IF name = "keyword" THEN keyword_scores
        ELSE IF name \in failed THEN Zeros(n) ELSE produced[name]]

\* lines 198-200: combined += weight * all_scores[name]
Combined(n, all_scores) ==
    [i \in 1..n |->
        Weights.isolation_forest * all_scores.isolation_forest[i]
        + Weights.one_class_svm * all_scores.one_class_svm[i]
        + Weights.statistical * all_scores.statistical[i]
        + Weights.keyword * all_scores.keyword[i]]

NoScores == [name \in DOMAIN Weights |-> <<>>]

NoDetection == [algorithm |-> None, returned |-> FALSE, n |-> 0, failed |-> {},
                all_scores |-> NoScores, blended |-> <<>>,
                scores |-> <<>>, predictions |-> <<>>]

InitDetectVars == detection = NoDetection

\* A behaviour records one call of detect: what a call answers depends on
\* its inputs and on how its detectors' runs end, not on earlier calls.
\* detect(X, algorithm) for one base detector (ensemble.py:100-139): a run
\* that raises is not caught; otherwise the blended scores are calibrated and
\* labelled.
DetectSingle ==
    /\ detection = NoDetection
    /\ \E name \in Detectors, outcome \in RunOutcomes, n \in 1..MaxN :
          \E blended \in Vectors(n, MaxScore) :
             IF RunFailed(outcome)
             THEN /\ blended = Zeros(n)
                  /\ detection' = [NoDetection EXCEPT !.algorithm = name, !.n = n,
                                                      !.failed = {name}]
             ELSE \E final_scores \in _redistribute_scores(blended) :
                     detection' = [NoDetection EXCEPT
                                      !.algorithm = name, !.returned = TRUE, !.n = n,
                                      !.blended = blended, !.scores = final_scores,
                                      !.predictions = Labels(final_scores)]
    /\ UNCHANGED notDetect

\* detect(X, "ensemble") = _hybrid_ensemble_detect (ensemble.py:141-208).
\* Each detector's scores are 0 or 1 per row; raw_logs may be absent.
DetectEnsemble ==
    /\ detection = NoDetection
    /\ \E n \in 1..MaxEnsembleN, outcome \in [Detectors -> RunOutcomes],
          has_logs \in BOOLEAN :
          \E produced \in [Detectors -> Vectors(n, 1)], keyword_scores \in Vectors(n, 1) :
             LET failed     == {name \in Detectors : RunFailed(outcome[name])}
                 all_scores == AllScores(n, failed, produced, keyword_scores)
                 combined   == Combined(n, all_scores)
             IN  /\ \A name \in failed : produced[name] = Zeros(n)
                 /\ has_logs \/ keyword_scores = Zeros(n)
                 /\ IF EnsembleSurvives(failed)
                    THEN \E final_scores \in _redistribute_scores(combined) :
                            detection' = [algorithm |-> "ensemble", returned |-> TRUE,
                                          n |-> n, failed |-> failed,
                                          all_scores |-> all_scores, blended |-> combined,
                                          scores |-> final_scores,
                                          predictions |-> Labels(final_scores)]
                    ELSE detection' = [NoDetection EXCEPT !.algorithm = "ensemble",
                                                         !.n = n, !.failed = failed]
    /\ UNCHANGED notDetect

NextDetect == DetectSingle \/ DetectEnsemble

(***************************************************************************)
(* AnalysisService.get_session_results (analysis_service.py:334-357).      *)
(***************************************************************************)
NotQueried == [asked |-> FALSE, session_id |-> 0, kind |-> None,
               session |-> NewSessionRow(0), anomalies |-> <<>>]

InitQueryVars == session_results = NotQueried

\* SELECT a.* FROM anomalies a JOIN logs l ... WHERE a.detected_at >= ?
\* with the session's start_time (the order of the rows is left out).
SessionAnomalies(table, start_time) ==
    SelectSeq(table, LAMBDA row : row.detected_at >= start_time)

\* What get_session_results answers when its queries succeed.
get_session_results(sessions, table, sid) ==
    IF sid \notin DOMAIN sessions
    THEN [NotQueried EXCEPT !.asked = TRUE, !.session_id = sid, !.kind = "not_found"]
    ELSE [asked |-> TRUE, session_id |-> sid, kind |-> "found",
          session |-> sessions[sid],
          anomalies |-> SessionAnomalies(table, sessions[sid].start_time)]

\* A caller asks for the results of a session id; a failing query is
\* answered with {"error": str(e)}.
GetSessionResults ==
    /\ \E sid \in 1..MaxSessions :
          \/ session_results' = get_session_results(analysis_sessions, anomalies, sid)
          \/ session_results' = [NotQueried EXCEPT !.asked = TRUE, !.session_id = sid,
                                                  !.kind = "error"]
    /\ session_results' # session_results
    /\ UNCHANGED notQuery

NextResults == NextSession \/ GetSessionResults

(***************************************************************************)
(* SOUPManager.verify_update_package (core/security.py:46-122) on the      *)
(* update packages of scripts/create_update_package.py.                    *)
(***************************************************************************)
\* The keys of the JSON object create_update_package writes.
UpdateFields == {"payload", "hash", "signature", "algorithm", "hash_algorithm"}

Payloads == {"payload1", "payload2"}

\* hashlib.sha256(payload_bytes).hexdigest(): one digest per payload.
Sha256(payload) == <<"sha256", payload>>

\* The package file as parsed: which keys it has and the values of the three
\* keys the verifier reads.
UpdatePackages ==
    [has : SUBSET UpdateFields, payload : Payloads,
     hash : {Sha256(payload) : payload \in Payloads},
     signature : {sign_data(key, payload) : key \in {TerminalKey, RogueKey},
                                           payload \in Payloads}]

\* create_update_package (create_update_package.py:51-73)
create_update_package(payload) ==
    [has |-> UpdateFields, payload |-> payload, hash |-> Sha256(payload),
     signature |-> sign_data(TerminalKey, payload)]

\* verify_update_package (security.py:72-117): is_valid of the answer.
verify_update_package(package, key_loaded) ==
    /\ {"payload", "signature", "hash"} \subseteq package.has
    /\ Sha256(package.payload) = package.hash
    /\ key_loaded
    /\ verify(TerminalKey, package.payload, package.signature)

NotVerified == [asked |-> FALSE, package |-> create_update_package("payload1"),
                key_loaded |-> FALSE, valid |-> FALSE]

InitSoupVars == verification = NotVerified

\* One package is verified; the public key may not have been found at start.
VerifyUpdatePackage ==
    /\ ~verification.asked
    /\ \E package \in UpdatePackages, key_loaded \in BOOLEAN :
          verification' = [asked |-> TRUE, package |-> package,
                           key_loaded |-> key_loaded,
                           valid |-> verify_update_package(package, key_loaded)]
    /\ UNCHANGED notSoup

NextSoup == VerifyUpdatePackage

(***************************************************************************)
(* The node identity: HubService.__init__ and _get_or_create_node_id       *)
(* (hub_service.py:30-33, 410-416), and the source_node of the packages    *)
(* export_sync_package builds (hub_service.py:151-160).                    *)
(***************************************************************************)
MaxStarts == 3
MaxNodeExports == 3

\* The values str(uuid.uuid4()) can return.
Uuids == {"uuid-1", "uuid-2", "uuid-3"}

NoFile == "no file"
NotStarted == "not started"
TargetNodes == {"hub", "hub-2"}

\* A start that ignored the file: a new id is generated and written each time.
_always_create_node_id(file, new_id) ==
    [id |-> new_id, file |-> new_id, wrote |-> TRUE]

\* _get_or_create_node_id (hub_service.py:410-416): the id returned and the
\* file afterwards.  str.strip() leaves a uuid text as it is.
_get_or_create_node_id(file, new_id) ==
    IF file # NoFile THEN [id |-> file, file |-> file, wrote |-> FALSE]
    ELSE [id |-> new_id, file |-> new_id, wrote |-> TRUE]

InitNodeVars ==
    /\ node_id_file = NoFile
    /\ this_node_id = NotStarted
    /\ starts = 0
    /\ node_writes = <<>>
    /\ node_packages = <<>>

\* The process starts on the data directory: HubService() is constructed.
StartHubService ==
    /\ starts < MaxStarts
    /\ \E new_id \in Uuids :
          LET r == _get_or_create_node_id(node_id_file, new_id) IN
            /\ this_node_id' = r.id
            /\ node_id_file' = r.file
            /\ node_writes' = IF r.wrote THEN Append(node_writes, r.file)
                              ELSE node_writes
    /\ starts' = starts + 1
    /\ UNCHANGED <<node_packages, notNode>>

\* export_sync_package (hub_service.py:151-160): the package's source_node.
ExportNodePackage ==
    /\ this_node_id # NotStarted
    /\ Len(node_packages) < MaxNodeExports
    /\ \E target_node_id \in TargetNodes :
          node_packages' = Append(node_packages,
                                  [source_node |-> this_node_id,
                                   target_node |-> target_node_id,
                                   after_start |-> starts])
    /\ UNCHANGED <<node_id_file, this_node_id, starts, node_writes, notNode>>

NextNode == StartHubService \/ ExportNodePackage

(***************************************************************************)
(* The real-time tailer on one watched path (core/realtime_monitor, whose  *)
(* events api/routes/stream.py:16-54 forwards): a read handle positioned   *)
(* at end-of-file on attach and the identity of the file it was opened on; *)
(* each poll cycle detects an identity change and reopens the new file     *)
(* from its start, then reads the complete lines after the position and    *)
(* enqueues one StreamEvent per line.                                      *)
(***************************************************************************)
MaxLines == 2
MaxRotations == 2

Identities == 1..(MaxRotations + 1)

NoHandle == [identity |-> 0, pos |-> 0]

\* The n-th line written to the file of this identity.
Line(identity, n) == <<identity, n>>

\* The handle a poll cycle reads with: reopened at the start of the new file
\* when the identity at the path is no longer the handle's.
Reopened(h, identity) ==
    IF h.identity # identity THEN [identity |-> identity, pos |-> 0] ELSE h

\* The complete lines after the handle's position.
ReadNewLines(h, fs) == SubSeq(fs[h.identity], h.pos + 1, Len(fs[h.identity]))

InitTailVars ==
    /\ files = [i \in Identities |-> <<>>]
    /\ path_identity = 1
    /\ handle = NoHandle
    /\ emitted = <<>>
    /\ appended = <<>>

\* add_file: open the file at the path and seek to its end.
AddFile ==
    /\ handle = NoHandle
    /\ handle' = [identity |-> path_identity, pos |-> Len(files[path_identity])]
    /\ UNCHANGED <<files, path_identity, emitted, appended, notTail>>

\* A writer appends one complete line to the file at the path.
AppendLine ==
    /\ Len(files[path_identity]) < MaxLines
    /\ LET line == Line(path_identity, Len(files[path_identity]) + 1) IN
         /\ files' = [files EXCEPT ![path_identity] = Append(@, line)]
         /\ appended' = IF handle # NoHandle THEN Append(appended, line)
                        ELSE appended
    /\ UNCHANGED <<path_identity, handle, emitted, notTail>>

\* Rotation: the file at the path is renamed and a new, empty one is created.
Rotate ==
    /\ path_identity <= MaxRotations
    /\ path_identity' = path_identity + 1
    /\ UNCHANGED <<files, handle, emitted, appended, notTail>>

\* One poll cycle of the tailer's worker for this path.
PollCycle ==
    /\ handle # NoHandle
    /\ LET h == Reopened(handle, path_identity) IN
         /\ emitted' = emitted \o ReadNewLines(h, files)
         /\ handle' = [h EXCEPT !.pos = Len(files[h.identity])]
    /\ UNCHANGED <<files, path_identity, appended, notTail>>

NextTail == AddFile \/ AppendLine \/ Rotate \/ PollCycle

(***************************************************************************)
(* The worker pool of _hybrid_ensemble_detect (ensemble.py:170-203): one   *)
(* run_detector task per base detector on min(len(detectors), 4) = 3       *)
(* workers, the gathering loop over as_completed(futures), and the         *)
(* combination that follows the with-block.  Rows: one, scores 0 or 1.     *)
(***************************************************************************)
TaskStates == {"not submitted", "submitted", "running", "returned", "raised"}

Finished(t) == t \in {"returned", "raised"}

\* A gathering loop that took only the futures already done when it looked.
AsCompletedDoneOnly(tasks, seen) ==
    seen = {name \in Detectors : Finished(tasks[name])}

\* for future in as_completed(futures) ends when every submitted future has
\* been yielded; a future is yielded only once it is done.
AsCompletedExhausted(tasks, seen) == seen = Detectors

NotBlended == [began |-> FALSE, task_at |-> [name \in Detectors |-> "not submitted"],
               all_scores |-> NoScores, combined |-> <<>>]

InitBarrierVars ==
    /\ task = [name \in Detectors |-> "not submitted"]
    /\ task_scores = [name \in Detectors |-> <<>>]
    /\ futures_seen = {}
    /\ gathered = {}
    /\ epc = "submit"
    /\ blend = NotBlended

\* executor.submit(run_detector, name, detector) for every detector.
SubmitTasks ==
    /\ epc = "submit"
    /\ task' = [name \in Detectors |-> "submitted"]
    /\ epc' = "gather"
    /\ UNCHANGED <<task_scores, futures_seen, gathered, blend, notBarrier>>

\* A worker thread takes the task.
StartTask(name) ==
    /\ task[name] = "submitted"
    /\ task' = [task EXCEPT ![name] = "running"]
    /\ UNCHANGED <<task_scores, futures_seen, gathered, epc, blend, notBarrier>>

\* run_detector returns (name, scores, elapsed).
TaskReturns(name) ==
    /\ task[name] = "running"
    /\ \E scores \in Vectors(1, 1) :
          task_scores' = [task_scores EXCEPT ![name] = scores]
    /\ task' = [task EXCEPT ![name] = "returned"]
    /\ UNCHANGED <<futures_seen, gathered, epc, blend, notBarrier>>

\* load, fit, predict or save raised inside run_detector.
TaskRaises(name) ==
    /\ task[name] = "running"
    /\ task' = [task EXCEPT ![name] = "raised"]
    /\ UNCHANGED <<task_scores, futures_seen, gathered, epc, blend, notBarrier>>

\* One turn of the gathering loop (ensemble.py:175-186): as_completed yields
\* a future that is done; its result is stored, its exception is logged.
GatherFuture(name) ==
    /\ epc = "gather"
    /\ name \notin futures_seen
    /\ Finished(task[name])
    /\ futures_seen' = futures_seen \cup {name}
    /\ gathered' = IF task[name] = "returned" THEN gathered \cup {name} ELSE gathered
    /\ UNCHANGED <<task, task_scores, epc, blend, notBarrier>>

\* Lines 188-200 after the loop and the with-block: zeros for the detectors
\* without scores, the keyword scores, the weighted sum.
Blend ==
    /\ epc = "gather"
    /\ AsCompletedExhausted(task, futures_seen)
    /\ \E keyword_scores \in Vectors(1, 1) :
          LET all_scores == AllScores(1, Detectors \ gathered, task_scores,
                                      keyword_scores)
          IN  blend' = [began |-> TRUE, task_at |-> task,
                        all_scores |-> all_scores,
                        combined |-> Combined(1, all_scores)]
    /\ epc' = "done"
    /\ UNCHANGED <<task, task_scores, futures_seen, gathered, notBarrier>>

NextBarrier ==
    \/ SubmitTasks
    \/ \E name \in Detectors : StartTask(name)
    \/ \E name \in Detectors : TaskReturns(name)
    \/ \E name \in Detectors : TaskRaises(name)
    \/ \E name \in Detectors : GatherFuture(name)
    \/ Blend

(***************************************************************************)
(* Concurrent writes of one detector's model file: joblib.dump in save     *)
(* (isolation_forest.py:117-133), called by run_detector of each running   *)
(* analysis (ensemble.py:153-168), and open(path, 'wb') / write in         *)
(* _apply_model_update (update_service.py:116-147).  Each opens the path   *)
(* itself, truncating it, and writes at its own offset; no lock is taken   *)
(* and no temporary file is renamed.  A file is two blocks long.           *)
(***************************************************************************)
Writers == {"analysis-1", "analysis-2", "update"}

FileBlocks == 2

Hole == [by |-> "nobody", part |-> 0]

\* The k-th block of the file writer w writes.
Block(w, k) == [by |-> w, part |-> k]

\* write() at offset k of a file that may be shorter (a hole is left) or
\* longer (the block is overwritten).
WriteAt(file, k, b) ==
    IF k < Len(file) THEN [file EXCEPT ![k + 1] = b]
    ELSE file \o [i \in 1..(k - Len(file)) |-> Hole] \o <<b>>

\* The file is one writer's complete output.
WholeFileOf(file, w) == file = [k \in 1..FileBlocks |-> Block(w, k)]

\* Every block is there, written by whoever.
FullLength(file) ==
    /\ Len(file) = FileBlocks
    /\ \A k \in 1..FileBlocks : file[k] # Hole /\ file[k].part = k

\* What load can answer (isolation_forest.py:135-170): a complete file of
\* one writer unpickles; a short file or one with a hole raises inside
\* joblib.load and load returns False; blocks of two writers put together
\* unpickle or not, depending on the bytes.
LoadAnswers(file) ==
    IF \E w \in Writers : WholeFileOf(file, w) THEN {TRUE}
    ELSE IF FullLength(file) THEN BOOLEAN
    ELSE {FALSE}

NoLoad == [asked |-> FALSE, file |-> <<>>, accepted |-> FALSE]

InitLockVars ==
    /\ shared_file = <<>>
    /\ writer = [w \in Writers |-> [at |-> "idle", offset |-> 0]]
    /\ concurrent_load = NoLoad

\* open(path, 'wb'): the file is truncated.
OpenForWrite(w) ==
    /\ writer[w].at = "idle"
    /\ writer' = [writer EXCEPT ![w] = [at |-> "writing", offset |-> 0]]
    /\ shared_file' = <<>>
    /\ UNCHANGED <<concurrent_load, notLock>>

\* One write() of the dump.
WriteBlock(w) ==
    /\ writer[w].at = "writing"
    /\ writer[w].offset < FileBlocks
    /\ shared_file' = WriteAt(shared_file, writer[w].offset,
                              Block(w, writer[w].offset + 1))
    /\ writer' = [writer EXCEPT ![w].offset = @ + 1]
    /\ UNCHANGED <<concurrent_load, notLock>>

CloseFile(w) ==
    /\ writer[w].at = "writing"
    /\ writer[w].offset = FileBlocks
    /\ writer' = [writer EXCEPT ![w].at = "closed"]
    /\ UNCHANGED <<shared_file, concurrent_load, notLock>>

\* detector.load() of some analysis reads the file as it is now.
ConcurrentLoad ==
    /\ ~concurrent_load.asked
    /\ shared_file # <<>>
    /\ \E accepted \in LoadAnswers(shared_file) :
          concurrent_load' = [asked |-> TRUE, file |-> shared_file,
                              accepted |-> accepted]
    /\ UNCHANGED <<shared_file, writer, notLock>>

NextLock ==
    \/ \E w \in Writers : OpenForWrite(w)
    \/ \E w \in Writers : WriteBlock(w)
    \/ \E w \in Writers : CloseFile(w)
    \/ ConcurrentLoad

(***************************************************************************)
(* The chunk loop of analyze_logs (analysis_service.py:74-127).  A chunk   *)
(* logs_data[offset : offset + chunk_size] is the half-open interval of    *)
(* record positions it holds.                                              *)
(***************************************************************************)
\* settings.AI_LARGE_DATASET_THRESHOLD, default (analysis_service.py:22)
LARGE_DATASET_THRESHOLD == 100000

\* chunk_size of a large dataset (analysis_service.py:75)
LargeChunkSize == 10000

\* Numbers of loaded records and configured thresholds tried.
RecordCounts == {1, 9999, 10000, 10001, 25000, 100000, 100001, 110000, 125000}
Thresholds == {LARGE_DATASET_THRESHOLD, 20000, 5000}

\* lines 74-82
chunk_size(total_logs, threshold) ==
    IF total_logs > threshold THEN LargeChunkSize ELSE total_logs

\* A slice that stops one record early.
ChunkShort(total_logs, offset, size) ==
    [from |-> offset, to |-> Min({offset + size - 1, total_logs})]

\* line 88: logs_data[offset : offset + chunk_size]
Chunk(total_logs, offset, size) ==
    [from |-> offset, to |-> Min({offset + size, total_logs})]

NoChunking == [at |-> "idle", total_logs |-> 0, threshold |-> 0, size |-> 0,
               offset |-> 0, in_progress |-> 0, processed |-> <<>>]

InitChunkVars == chunking = NoChunking

\* lines 53-87: N > 0 records are loaded and the loop is entered.
EnterChunkLoop ==
    /\ chunking.at = "idle"
    /\ \E n \in RecordCounts, threshold \in Thresholds :
          chunking' = [NoChunking EXCEPT !.at = "loop", !.total_logs = n,
                                         !.threshold = threshold,
                                         !.size = chunk_size(n, threshold)]
    /\ UNCHANGED notChunk

\* One turn of `for offset in range(0, total_logs, chunk_size)`: the chunk is
\* extracted, scored and its anomalies built before the next offset is taken.
ProcessChunk ==
    /\ chunking.at = "loop"
    /\ chunking.offset < chunking.total_logs
    /\ chunking' = [chunking EXCEPT
          !.processed = Append(@, Chunk(chunking.total_logs, chunking.offset,
                                        chunking.size)),
          !.offset = @ + chunking.size]
    /\ UNCHANGED notChunk

\* Feature extraction or detection of the chunk raises: the loop is left.
ChunkRaises ==
    /\ chunking.at = "loop"
    /\ chunking.offset < chunking.total_logs
    /\ chunking' = [chunking EXCEPT !.at = "failed"]
    /\ UNCHANGED notChunk

\* range() is exhausted.
LeaveChunkLoop ==
    /\ chunking.at = "loop"
    /\ chunking.offset >= chunking.total_logs
    /\ chunking' = [chunking EXCEPT !.at = "done"]
    /\ UNCHANGED notChunk

NextChunk == EnterChunkLoop \/ ProcessChunk \/ ChunkRaises \/ LeaveChunkLoop

(***************************************************************************)
(* UpdateService.apply_update (update_service.py:60-114): the package file *)
(* is read once by verify_update_package, once more by verify_update to    *)
(* extract the metadata, and a third time by extract_update_payload before *)
(* the payload is applied.  The file lies on removable media or in a       *)
(* directory other processes write to, and may be replaced between reads.  *)
(***************************************************************************)
MaxUpdates == 3

\* A package signed with another key than the vendor's.
ForgedPackage(payload) ==
    [create_update_package(payload) EXCEPT !.signature = sign_data(RogueKey, payload)]

\* A package whose payload was exchanged after hashing and signing.
TamperedPackage(payload, other) ==
    [create_update_package(payload) EXCEPT !.payload = other]

PackageFiles ==
    {create_update_package(payload) : payload \in Payloads}
        \cup {ForgedPackage(payload) : payload \in Payloads}
        \cup {TamperedPackage(payload, other) : payload, other \in Payloads}

\* extract_update_payload (security.py:124-146): json.loads of the payload
\* string of the file as it is when read; nothing is verified here.
extract_update_payload(file) == file.payload

NoPayloadApplied == "nothing"

InitUpdateVars ==
    /\ package_file = create_update_package("payload1")
    /\ upc = "idle"
    /\ updates = 0
    /\ verified_payload = NoPayloadApplied
    /\ applied_payload = NoPayloadApplied

\* Another process writes a different package to the path.
ReplacePackageFile ==
    /\ \E file \in PackageFiles \ {package_file} : package_file' = file
    /\ UNCHANGED <<upc, updates, verified_payload, applied_payload, notUpdate>>

\* apply_update is called; verify_update (lines 24-58) has the package
\* verified from a first read of the file.
VerifyUpdate ==
    /\ upc \in {"idle", "applied", "refused"}
    /\ updates < MaxUpdates
    /\ updates' = updates + 1
    /\ applied_payload' = NoPayloadApplied
    /\ IF verify_update_package(package_file, TRUE)
       THEN /\ upc' = "metadata"
            /\ verified_payload' = package_file.payload
       ELSE /\ upc' = "refused"
            /\ verified_payload' = NoPayloadApplied
    /\ UNCHANGED <<package_file, notUpdate>>

\* verify_update lines 47-56: the file is read again for metadata, version
\* and type; a failure here is logged and the result stays valid.
ExtractMetadata ==
    /\ upc = "metadata"
    /\ upc' = "extract"
    /\ UNCHANGED <<package_file, updates, verified_payload, applied_payload, notUpdate>>

\* apply_update lines 79-97: the payload is extracted from a third read and
\* handed to _apply_model_update, _apply_rules_update or _apply_mitre_update.
ExtractAndApply ==
    /\ upc = "extract"
    /\ applied_payload' = extract_update_payload(package_file)
    /\ upc' = "applied"
    /\ UNCHANGED <<package_file, updates, verified_payload, notUpdate>>

NextUpdate == ReplacePackageFile \/ VerifyUpdate \/ ExtractMetadata \/ ExtractAndApply

(***************************************************************************)
(* DeviceMonitor.start_hotplug_monitor / stop_hotplug_monitor              *)
(* (device_monitor.py:192-211) and the threads running _hotplug_loop       *)
(* (device_monitor.py:432-477).  Calls come from one caller, one at a      *)
(* time; the loops run on their own threads.                               *)
(***************************************************************************)
MaxLoops == 2
MaxMonitorCalls == 5

\* Where a loop thread stands: at the while test, inside an iteration
\* (enumerating devices, persisting and calling back), in time.sleep(3), in
\* a sleep it began while a stop call was waiting in join, or past the loop.
LoopStates == {"test", "polling", "sleeping", "late sleeping", "exited"}

Alive(loop) == loop # "exited"

InitHotplugVars ==
    /\ hotplug_running = FALSE
    /\ hotplug_loops = <<>>
    /\ monitor_pc = "ready"
    /\ monitor_calls = 0
    /\ stop_returned = FALSE

\* start_hotplug_monitor (lines 192-204): nothing when the flag is set;
\* otherwise the flag is set and a new thread is started.
StartHotplugMonitor ==
    /\ monitor_pc = "ready"
    /\ monitor_calls < MaxMonitorCalls
    /\ monitor_calls' = monitor_calls + 1
    /\ IF hotplug_running
       THEN UNCHANGED <<hotplug_running, hotplug_loops, stop_returned>>
       ELSE /\ Len(hotplug_loops) < MaxLoops
            /\ hotplug_running' = TRUE
            /\ hotplug_loops' = Append(hotplug_loops, "test")
            /\ stop_returned' = FALSE
    /\ UNCHANGED <<monitor_pc, notHotplug>>

\* stop_hotplug_monitor, lines 206-208: the flag is cleared and the caller
\* waits in join(timeout=3) for the thread started last.
StopClearsFlag ==
    /\ monitor_pc = "ready"
    /\ monitor_calls < MaxMonitorCalls
    /\ monitor_calls' = monitor_calls + 1
    /\ hotplug_running' = FALSE
    /\ monitor_pc' = "joining"
    /\ UNCHANGED <<hotplug_loops, stop_returned, notHotplug>>

\* join(timeout=3) can time out on a thread that was inside an iteration
\* after the join began: the iteration and the three-second sleep after it
\* take longer than the three seconds of the join.
JoinTimesOut(loop) == loop \in {"polling", "late sleeping"}

\* join(timeout=3) returns: the thread started last has ended, or the
\* timeout passed.
StopReturns ==
    /\ monitor_pc = "joining"
    /\ \/ hotplug_loops = <<>>
       \/ /\ hotplug_loops # <<>>
          /\ \/ ~Alive(hotplug_loops[Len(hotplug_loops)])
             \/ JoinTimesOut(hotplug_loops[Len(hotplug_loops)])
    /\ monitor_pc' = "ready"
    /\ stop_returned' = TRUE
    /\ UNCHANGED <<hotplug_running, hotplug_loops, monitor_calls, notHotplug>>

\* while self._hotplug_running:
LoopTest(i) ==
    /\ hotplug_loops[i] = "test"
    /\ hotplug_loops' = [hotplug_loops EXCEPT
                            ![i] = IF hotplug_running THEN "polling" ELSE "exited"]
    /\ UNCHANGED <<hotplug_running, monitor_pc, monitor_calls, stop_returned, notHotplug>>

\* One iteration's body (lines 437-472) is done; time.sleep(3) begins.
LoopPolled(i) ==
    /\ hotplug_loops[i] = "polling"
    /\ hotplug_loops' = [hotplug_loops EXCEPT
                            ![i] = IF monitor_pc = "joining" THEN "late sleeping"
                                   ELSE "sleeping"]
    /\ UNCHANGED <<hotplug_running, monitor_pc, monitor_calls, stop_returned, notHotplug>>

\* The sleep is over.
LoopWakes(i) ==
    /\ hotplug_loops[i] \in {"sleeping", "late sleeping"}
    /\ hotplug_loops' = [hotplug_loops EXCEPT ![i] = "test"]
    /\ UNCHANGED <<hotplug_running, monitor_pc, monitor_calls, stop_returned, notHotplug>>

NextHotplug ==
    \/ StartHotplugMonitor
    \/ StopClearsFlag
    \/ StopReturns
    \/ \E i \in 1..Len(hotplug_loops) : LoopTest(i)
    \/ \E i \in 1..Len(hotplug_loops) : LoopPolled(i)
    \/ \E i \in 1..Len(hotplug_loops) : LoopWakes(i)

(***************************************************************************)
(* Concurrent DatabaseManager.insert_batch calls on one table              *)
(* (database.py:342-374): each caller first reads COALESCE(MAX(id), 0) + 1 *)
(* in a statement of its own, numbers its rows from it, then inserts them. *)
(* Nothing holds a lock between the two statements; the table's PRIMARY    *)
(* KEY on id refuses a row whose id is already there.                      *)
(***************************************************************************)
MaxBatchRows == 2
MaxBatches == 2

Callers == {"ingestion", "analysis"}

\* _get_next_id over the ids in the table.
_get_next_id(ids) == IF ids = {} THEN 1 ELSE Max(ids) + 1

IdleBatch == [at |-> "idle", ids |-> {}, done |-> 0]

InitIdVars ==
    /\ table_ids = {}
    /\ batch = [c \in Callers |-> IdleBatch]

\* lines 348-350: next_id is read and the n records of the batch get the
\* ids next_id .. next_id + n - 1.
AssignIds(c) ==
    /\ batch[c].at = "idle"
    /\ batch[c].done < MaxBatches
    /\ \E n \in 1..MaxBatchRows :
          LET first == _get_next_id(table_ids)
          IN  batch' = [batch EXCEPT ![c].at = "numbered",
                                     ![c].ids = first..(first + n - 1)]
    /\ UNCHANGED <<table_ids, notId>>

\* lines 357-362: executemany inserts the rows in order; a row whose id is
\* in the table already violates the primary key and the call raises, the
\* rows before it staying in the table.
InsertNumberedRows(c) ==
    /\ batch[c].at = "numbered"
    /\ LET clashing == batch[c].ids \cap table_ids
           before   == IF clashing = {} THEN batch[c].ids
                       ELSE {i \in batch[c].ids : i < Min(clashing)}
       IN  table_ids' = table_ids \cup before
    /\ batch' = [batch EXCEPT ![c] = [at |-> "idle", ids |-> {}, done |-> @.done + 1]]
    /\ UNCHANGED notId

NextIds ==
    \/ \E c \in Callers : AssignIds(c)
    \/ \E c \in Callers : InsertNumberedRows(c)

(***************************************************************************)
(* Severity of the anomalies of a session: the band stored with each row   *)
(* (_calculate_severity, analysis_service.py:303-310, used by              *)
(* _build_anomalies) and the distribution in the summary                   *)
(* (AnomalyBatch.get_summary over Anomaly.get_severity_level,              *)
(* anomaly.py:61-104).  Scores are in hundredths.                          *)
(***************************************************************************)
MaxSummaryAnoms == 2

Severities == {"CRITICAL", "HIGH", "MEDIUM", "LOW"}

\* Calibrated scores around every band edge of either function.
SummaryScores == {50, 55, 60, 70, 75, 80, 85, 90, 92, 95, 99}

\* The threshold argument of analyze_logs (default 0.70).
SummaryThresholds == {55, 70}

\* AnalysisService._calculate_severity (analysis_service.py:303-310)
_calculate_severity(score) ==
    IF score >= 90 THEN "CRITICAL"
    ELSE IF score >= 75 THEN "HIGH"
    ELSE IF score >= 55 THEN "MEDIUM"
    ELSE "LOW"

\* Anomaly.get_severity_level (anomaly.py:61-70)
get_severity_level(score) ==
    IF score >= 95 THEN "CRITICAL"
    ELSE IF score >= 85 THEN "HIGH"
    ELSE IF score >= 70 THEN "MEDIUM"
    ELSE "LOW"

\* The severity column of the rows the session persisted, counted per band
\* (severity = _calculate_severity(score), analysis_service.py:202-207).
PersistedDistribution(scores) ==
    [sev \in Severities |->
        Cardinality({i \in 1..Len(scores) : _calculate_severity(scores[i]) = sev})]

\* summary['severity_distribution'] (anomaly.py:84-96): a count per band of
\* anomaly.get_severity_level().
get_summary(scores) ==
    [sev \in Severities |->
        Cardinality({i \in 1..Len(scores) : get_severity_level(scores[i]) = sev})]

NoSummary == [made |-> FALSE, threshold |-> 0, scores |-> <<>>,
              persisted |-> [sev \in Severities |-> 0],
              severity_distribution |-> [sev \in Severities |-> 0]]

InitSummaryVars == summary = NoSummary

\* analyze_logs lines 134-158 for a session whose anomalies have these
\* scores, each at or above the threshold (line 200).
Summarize ==
    /\ ~summary.made
    /\ \E threshold \in SummaryThresholds, n \in 1..MaxSummaryAnoms :
          \E scores \in [1..n -> {x \in SummaryScores : x >= threshold}] :
             summary' = [made |-> TRUE, threshold |-> threshold, scores |-> scores,
                         persisted |-> PersistedDistribution(scores),
                         severity_distribution |-> get_summary(scores)]
    /\ UNCHANGED notSummary

NextSummary == Summarize

Init ==
    /\ InitHubVars /\ InitExportVars /\ InitSessionVars /\ InitStoreVars
    /\ InitDetectVars /\ InitQueryVars /\ InitSoupVars
    /\ InitNodeVars /\ InitTailVars
    /\ InitBarrierVars
    /\ InitLockVars
    /\ InitChunkVars
    /\ InitUpdateVars
    /\ InitHotplugVars
    /\ InitIdVars
    /\ InitSummaryVars

SpecBarrier == Init /\ [][NextBarrier]_vars

SpecLock == Init /\ [][NextLock]_vars

SpecChunk == Init /\ [][NextChunk]_vars

SpecUpdate == Init /\ [][NextUpdate]_vars

SpecHotplug == Init /\ [][NextHotplug]_vars

SpecIds == Init /\ [][NextIds]_vars

SpecSummary == Init /\ [][NextSummary]_vars

SpecDetect == Init /\ [][NextDetect]_vars

SpecResults == Init /\ [][NextResults]_vars

SpecTail == Init /\ [][NextTail]_vars

SpecNode == Init /\ [][NextNode]_vars

SpecSoup == Init /\ [][NextSoup]_vars

SpecStore == Init /\ [][NextStore]_vars

SpecSession == Init /\ [][NextSession]_vars

NextExport == ExportSyncPackage \/ StoreLocalAnomaly

SpecExport == Init /\ [][NextExport]_vars

ImportHubPackage ==
    /\ now < MaxImports
    /\ \E pkg \in HubPackages : import_sync_package(pkg)

NextHub == ImportHubPackage

SpecHub == Init /\ [][NextHub]_vars

(***************************************************************************)
(* SpecCorr: a hub that imports unsigned, well-formed packages from three  *)
(* nodes and is asked for the cross-node correlations.                     *)
(***************************************************************************)
CorrPackages ==
    {MkPackage(NoId, node, anoms, NodeInfo(node, Len(anoms)), NoSignature) :
        node \in Nodes,
        anoms \in SeqsUpTo({PkgAnomaly(id, tt[1], tt[2]) :
                               id \in 1..MaxCorrIds, tt \in TechniqueTactics}, 1)}

ImportCorrPackage ==
    /\ now < MaxCorrImports
    /\ \E pkg \in CorrPackages : import_sync_package(pkg)

GetCorrelations ==
    /\ ~correlations.asked
    /\ correlations' = [asked |-> TRUE, rows |-> get_cross_node_correlations(hub_anomalies)]
    /\ UNCHANGED <<hub_anomalies, node_registry, node_sync_log, now, last>>
    /\ UNCHANGED <<exportVars, sessionVars, storeVars, laterVars>>

NextCorr == ImportCorrPackage \/ GetCorrelations

SpecCorr == Init /\ [][NextCorr]_vars

(***************************************************************************)
(* Claims about the hub.                                                   *)
(***************************************************************************)
Imported == last.outcome # None

BadSignature(pkg) ==
    /\ pkg.signature # NoSignature
    /\ ~verify(TerminalKey, CanonicalJson(BodyOf(pkg)), pkg.signature)

\* C1: an import of a package whose signature field does not verify against
\* the public key is rejected with an error and leaves hub_anomalies,
\* node_registry and node_sync_log exactly as they were.
C1_BadSignatureRejected ==
    (Imported /\ BadSignature(last.pkg)) =>
        /\ last.outcome = "raised"
        /\ hub_anomalies = last.hub_before
        /\ node_registry = last.reg_before
        /\ node_sync_log = last.log_before

SamePair(r1, r2) ==
    r1.original_id = r2.original_id /\ r1.source_node = r2.source_node

\* C2: importing the package that was imported just before leaves
\* hub_anomalies as the first import left it, and no import inserts a row for
\* an (original_id, source_node) pair that is already present.
C2_ImportIdempotent ==
    /\ (Imported /\ last.prev = last.pkg) => hub_anomalies = last.hub_before
    /\ \A i, j \in 1..Len(hub_anomalies) :
          (i # j) => ~SamePair(hub_anomalies[i], hub_anomalies[j])

\* C6: when a package is imported a second time, the second import completes
\* too and adds its own row to node_sync_log.
C6_EveryImportLogged ==
    (Imported /\ last.prev = last.pkg /\ last.prev_outcome = "ok") =>
        /\ last.outcome = "ok"
        /\ Len(node_sync_log) = Len(last.log_before) + 1

\* C8: a package exported with signing requested (and the private key
\* readable) carries a signature that verifies, with the matching public key,
\* against the canonical JSON (keys sorted, no whitespace) of the file's
\* other fields.
C8_SignedExportVerifies ==
    (qsp.written /\ qsp.sign /\ qsp.key_readable) =>
        /\ qsp.file.signature # NoSignature
        /\ verify(TerminalKey, CanonicalJson(BodyOf(qsp.file)), qsp.file.signature)

NonNullTechniques(hub) ==
    {hub[i].mitre_technique_id : i \in 1..Len(hub)} \ {None}

NodesOfTechnique(hub, T) ==
    {hub[i].source_node : i \in {j \in 1..Len(hub) : hub[j].mitre_technique_id = T}}

\* C7: the correlations hold exactly one row for every non-null technique
\* seen on at least 2 distinct source nodes, with node_count the number of
\* those nodes and threat_level CRITICAL from 3 nodes on and HIGH below, and
\* no row for any other technique.
C7_CorrelationsPerTechnique ==
    correlations.asked =>
        /\ \A T \in NonNullTechniques(hub_anomalies) :
              LET n    == Cardinality(NodesOfTechnique(hub_anomalies, T))
                  rows == {r \in correlations.rows : r.mitre_technique_id = T}
              IN  IF n >= 2
                  THEN /\ Cardinality(rows) = 1
                       /\ \A r \in rows :
                             /\ r.node_count = n
                             /\ r.threat_level = (IF n >= 3 THEN "CRITICAL" ELSE "HIGH")
                  ELSE rows = {}
        /\ \A r \in correlations.rows :
              r.mitre_technique_id \in NonNullTechniques(hub_anomalies)

(***************************************************************************)
(* Claims about analysis sessions, checked under SpecSession.              *)
(***************************************************************************)
Terminal(row) == row.status \in {"completed", "failed"}

\* C3: every session analyze_logs has returned has a row whose status is
\* completed or failed and whose logs_analyzed >= anomalies_detected >= 0,
\* the call over an empty time window included.
C3_ReturnedSessionTerminal ==
    \A s \in returned_ids :
        /\ s \in DOMAIN analysis_sessions
        /\ Terminal(analysis_sessions[s])
        /\ analysis_sessions[s].logs_analyzed >= analysis_sessions[s].anomalies_detected
        /\ analysis_sessions[s].anomalies_detected >= 0

\* C4: no step changes the row of a session whose status is completed or
\* failed: its status and every other column stay as they are.
C4_TerminalRowsImmutable ==
    [][\A s \in DOMAIN analysis_sessions :
          Terminal(analysis_sessions[s]) =>
              /\ s \in DOMAIN analysis_sessions'
              /\ analysis_sessions'[s] = analysis_sessions[s]]_vars

\* A completed session whose report step has run, while a later call of
\* analyze_logs has already failed and been handled.
C4_Witness ==
    /\ pc = "raised"
    /\ call.sid \in DOMAIN analysis_sessions
    /\ analysis_sessions[call.sid].status = "failed"
    /\ \E s \in DOMAIN analysis_sessions :
          /\ s # call.sid
          /\ analysis_sessions[s].status = "completed"
          /\ analysis_sessions[s].anomalies_detected > 0

\* C5: when analyze_logs has raised after its session row was inserted, the
\* row has status failed and its metadata holds the error string.
C5_FailureRecorded ==
    (pc = "raised" /\ call.sid \in DOMAIN analysis_sessions) =>
        /\ analysis_sessions[call.sid].status = "failed"
        /\ analysis_sessions[call.sid].metadata = [has_error |-> TRUE, error |-> call.err]

(***************************************************************************)
(* Claims about the model store, checked under SpecStore.                  *)
(***************************************************************************)
HasMetadata(f) == f.kind = "object" /\ f.metadata.present

DigestMismatch(f) == HasMetadata(f) /\ f.metadata.checksum # Digest(f.metadata)

\* The file records another name, arity or hyperparameters than expected.
FingerprintMismatch(f, by, n_features) ==
    /\ HasMetadata(f)
    /\ \/ f.metadata.model_name # by.name
       \/ f.metadata.n_features # n_features
       \/ f.metadata.params # by.params

\* The load read the file the last save wrote, and the requester has the
\* name, the hyperparameters and the arity of the saver.
RightAfterSave ==
    /\ loaded.asked
    /\ saved.done
    /\ loaded.file = saved.file
    /\ loaded.by.name = saved.by.name
    /\ loaded.by.params = saved.by.params
    /\ loaded.n_features = saved.by.model.n_features

C10_TagCoversPayload ==
    (/\ loaded.asked
     /\ loaded.n_features # NoArity
     /\ saved.done
     /\ loaded.file.kind = "object"
     /\ loaded.file.keys = saved.file.keys
     /\ loaded.file.metadata = saved.file.metadata
     /\ loaded.file.payload # saved.file.payload)
    => ~loaded.ok

(***************************************************************************)
(* Claims about anomaly scoring, checked under SpecDetect.                 *)
(***************************************************************************)
\* C11: in ensemble mode detect returns predictions and scores of the length
\* of its input whatever subset of the base detectors failed, all three
\* included, and every failed detector enters the weighted sum as zeros.
C11_EnsembleSurvivesFailures ==
    (detection.algorithm = "ensemble") =>
        /\ detection.returned
        /\ Len(detection.scores) = detection.n
        /\ Len(detection.predictions) = detection.n
        /\ \A name \in detection.failed : detection.all_scores[name] = Zeros(detection.n)
        /\ detection.blended = Combined(detection.n, detection.all_scores)

\* All three base detectors failed and the keyword scores alone gave labels.
C11_Witness ==
    /\ detection.algorithm = "ensemble"
    /\ detection.returned
    /\ detection.failed = Detectors
    /\ detection.all_scores.keyword # Zeros(detection.n)
    /\ \E i \in 1..detection.n : detection.predictions[i] = -1

Flagged == {i \in DOMAIN detection.predictions : detection.predictions[i] = -1}

\* ceil(0.15 n)
Ceil15(n) == (15 * n + 99) \div 100

\* C12: of the n entries of a returned score vector the labels mark
\* ceil(0.15 n) as -1, one more or less allowed for rounding, and every
\* other entry as +1.
C12_FifteenPercentFlagged ==
    detection.returned =>
        /\ Cardinality(Flagged) <= Ceil15(detection.n) + 1
        /\ Cardinality(Flagged) >= Ceil15(detection.n) - 1
        /\ \A i \in DOMAIN detection.predictions : detection.predictions[i] \in {-1, 1}

\* C13: every calibrated score lies in [0.1, 0.99] and the calibrated vector
\* orders the entries as the blended vector does: a smaller blended score
\* has a smaller calibrated score, and no pair of entries is reversed.
C13_CalibrationInRangeAndOrder ==
    (detection.returned /\ detection.algorithm # "ensemble") =>
        /\ Len(detection.scores) = Len(detection.blended)
        /\ \A i \in DOMAIN detection.scores :
              detection.scores[i] >= 1000 /\ detection.scores[i] <= 9900
        /\ \A i, j \in DOMAIN detection.scores :
              /\ (detection.blended[i] < detection.blended[j])
                    => detection.scores[i] < detection.scores[j]
              /\ (detection.scores[i] < detection.scores[j])
                    => detection.blended[i] <= detection.blended[j]

\* An all-equal vector of at least three entries went through the linspace
\* fallback and came out spread from 0.1 to 0.9.
C13_Witness ==
    /\ detection.returned
    /\ detection.algorithm # "ensemble"
    /\ detection.n >= 3
    /\ \A i \in DOMAIN detection.blended : detection.blended[i] = detection.blended[1]
    /\ \E i, j \in DOMAIN detection.scores :
          detection.scores[i] = 1000 /\ detection.scores[j] = 9000

(***************************************************************************)
(* Further claims about analysis sessions, checked under SpecSession.      *)
(***************************************************************************)
\* The rows of the anomalies table that session sid inserted, in table order.
RowsOfSession(sid) == SelectSeq(anomalies, LAMBDA row : row.session = sid)

\* C14: a call whose time window holds no logs returns a result with status
\* completed, logs_analyzed = 0 and anomalies_detected = 0, and the anomalies
\* table has no row of that session.
C14_EmptyWindowCompletes ==
    (call.loaded /\ call.total_logs = 0) =>
        /\ pc = "returned"
        /\ result.kind = "returned"
        /\ result.session_id = call.sid
        /\ result.status = "completed"
        /\ result.logs_analyzed = 0
        /\ result.anomalies_detected = 0
        /\ RowsOfSession(call.sid) = <<>>

\* The second call found its window empty while the first call's anomalies
\* are in the table.
C14_Witness ==
    /\ call.loaded
    /\ call.total_logs = 0
    /\ call.sid = 2
    /\ pc = "returned"
    /\ anomalies # <<>>

\* C15: no session has two anomaly rows for one log, and once the batch
\* insert of the running session is done its rows are the anomalies it
\* built, each one once.
C15_AnomaliesInsertedOnce ==
    /\ \A i, j \in 1..Len(anomalies) :
          (i # j /\ anomalies[i].session = anomalies[j].session)
              => anomalies[i].log_id # anomalies[j].log_id
    /\ (pc \in {"map", "close", "report", "returned"} /\ call.total_logs > 0) =>
          /\ Len(RowsOfSession(call.sid)) = Len(call.found)
          /\ \A i \in 1..Len(call.found) : RowsOfSession(call.sid)[i].log_id = call.found[i]

\* A session has returned with two anomalies inserted, after an earlier
\* session stored an anomaly for one of the same logs.
C15_Witness ==
    /\ pc = "returned"
    /\ Len(call.found) = 2
    /\ Len(RowsOfSession(call.sid)) = 2
    /\ \E i \in 1..Len(anomalies) :
          anomalies[i].session # call.sid /\ anomalies[i].log_id = call.found[1]

\* C18: analyze_logs ends every call with a result object that carries a
\* status; no failure of the flow is raised to the caller.
C18_FailuresAreResults ==
    (result.kind # None) =>
        /\ result.kind = "returned"
        /\ result.status \in {"completed", "failed"}

(***************************************************************************)
(* Claim about get_session_results, checked under SpecResults.             *)
(***************************************************************************)
\* C20: get_session_results answers not-found exactly for a session id that
\* has no row, and for a known session the anomalies it returns are the rows
\* that session inserted, whatever sessions ran before or after it.
C20_ResultsOfThatSession ==
    [][(session_results' # session_results /\ session_results'.kind # "error") =>
          /\ (session_results'.kind = "not_found")
                <=> (session_results'.session_id \notin DOMAIN analysis_sessions)
          /\ (session_results'.kind = "found") =>
                session_results'.anomalies = RowsOfSession(session_results'.session_id)]_vars

(***************************************************************************)
(* Claim about update packages, checked under SpecSoup.                    *)
(***************************************************************************)
\* C16: an update package is accepted only when it has all of payload, hash,
\* signature, algorithm and hash_algorithm, its hash is the SHA-256 of its
\* payload and its signature validates over the payload.
C16_UpdatePackageChecked ==
    (verification.asked /\ verification.valid) =>
        /\ UpdateFields \subseteq verification.package.has
        /\ Sha256(verification.package.payload) = verification.package.hash
        /\ verify(TerminalKey, verification.package.payload,
                  verification.package.signature)

(***************************************************************************)
(* Claim about the node identity, checked under SpecNode.                  *)
(***************************************************************************)
\* C17: the node_id file is written exactly once, by the first start; every
\* start returns the value that write stored, and every exported package
\* carries that value as source_node.
C17_OneNodeId ==
    /\ starts = 0 => (node_id_file = NoFile /\ node_writes = <<>>)
    /\ starts > 0 =>
          /\ Len(node_writes) = 1
          /\ node_id_file = node_writes[1]
          /\ this_node_id = node_writes[1]
    /\ \A i \in 1..Len(node_packages) : node_packages[i].source_node = node_id_file

\* Packages exported after different starts, the last after the third start.
C17_Witness ==
    /\ starts = MaxStarts
    /\ Len(node_packages) >= 2
    /\ node_packages[1].after_start = 1
    /\ node_packages[Len(node_packages)].after_start = MaxStarts

(***************************************************************************)
(* Claim about the tailer, checked under SpecTail.                         *)
(***************************************************************************)
\* The tailer has polled since the last write at the path.
CaughtUp ==
    /\ handle.identity = path_identity
    /\ handle.pos = Len(files[path_identity])

\* C19: once the tailer has polled after the last write, the events emitted
\* for the path are exactly the lines appended since it was attached, one
\* event per line and in append order, across rotations too.
C19_OneEventPerLine ==
    CaughtUp => emitted = appended

(***************************************************************************)
(* Claim about the ensemble's worker pool, checked under SpecBarrier.      *)
(***************************************************************************)
\* C21: when the weighted combination began every submitted detector task
\* had finished, and the blended scores are computed from the final output
\* of each detector: its returned scores, or zeros when it raised.
C21_BlendAfterAllTasks ==
    blend.began =>
        \A name \in Detectors :
            /\ Finished(blend.task_at[name])
            /\ task[name] = blend.task_at[name]
            /\ blend.all_scores[name] =
                  IF task[name] = "returned" THEN task_scores[name] ELSE Zeros(1)

\* Blending happened after one detector raised and another returned score 1.
C21_Witness ==
    /\ blend.began
    /\ \E a, b \in Detectors :
          /\ task[a] = "raised"
          /\ task[b] = "returned" /\ blend.all_scores[b] = <<1>>

(***************************************************************************)
(* Claim about concurrent model writes, checked under SpecLock.            *)
(***************************************************************************)
\* C22: at most one writer has the model file open for writing at a time,
\* and a load that accepts the file read the complete output of one writer.
C22_WritesExclusive ==
    /\ \A w1, w2 \in Writers :
          (writer[w1].at = "writing" /\ writer[w2].at = "writing") => w1 = w2
    /\ (concurrent_load.asked /\ concurrent_load.accepted) =>
          \E w \in Writers : WholeFileOf(concurrent_load.file, w)

(***************************************************************************)
(* Claim about the chunk loop, checked under SpecChunk.                    *)
(***************************************************************************)
\* C23: when the loop ends the chunks processed, in order, are consecutive
\* and cover the positions 0..N-1 exactly once; there is one chunk when N is
\* at most the threshold, and otherwise every chunk but the last holds
\* 10 000 records and the last at most 10 000.
C23_ChunksCoverOnce ==
    chunking.at = "done" =>
        LET p == chunking.processed
            n == chunking.total_logs
        IN  /\ Len(p) >= 1
            /\ p[1].from = 0
            /\ p[Len(p)].to = n
            /\ \A i \in 1..Len(p) : p[i].from < p[i].to
            /\ \A i \in 1..(Len(p) - 1) : p[i].to = p[i + 1].from
            /\ n <= chunking.threshold => Len(p) = 1
            /\ n > chunking.threshold =>
                  /\ \A i \in 1..(Len(p) - 1) : p[i].to - p[i].from = LargeChunkSize
                  /\ p[Len(p)].to - p[Len(p)].from <= LargeChunkSize

\* A large dataset went through several chunks, the last one shorter.
C23_Witness ==
    /\ chunking.at = "done"
    /\ chunking.total_logs > chunking.threshold
    /\ Len(chunking.processed) >= 3
    /\ chunking.processed[Len(chunking.processed)].to
          - chunking.processed[Len(chunking.processed)].from < LargeChunkSize

(***************************************************************************)
(* Sessions and persistence, checked under SpecSession.                    *)
(***************************************************************************)
\* C24: when analyze_logs has ended, returned or raised, the anomalies table
\* holds either every anomaly the session built or none of them.
C24_PersistenceAtomic ==
    pc \in {"returned", "raised"} =>
        Len(RowsOfSession(call.sid)) \in {0, Len(call.found)}

\* C25: a mapping step that finds the taxonomy unavailable (table empty and
\* nothing to load) goes on to the closing of the session without touching
\* the anomalies table, and from then on to the end of the call every
\* anomaly row of the session has no technique.
C25_NoTaxonomyNotFatal ==
    /\ [][(pc = "map" /\ call'.taxonomy_unavailable) =>
             (pc' = "close" /\ anomalies' = anomalies)]_vars
    /\ [](call.taxonomy_unavailable =>
             \A i \in 1..Len(RowsOfSession(call.sid)) :
                 RowsOfSession(call.sid)[i].mitre_technique_id = None)

\* A session with two anomalies returned after its mapping step found no
\* taxonomy.
C25_Witness ==
    /\ pc = "returned"
    /\ call.taxonomy_unavailable
    /\ Len(RowsOfSession(call.sid)) = 2
    /\ analysis_sessions[call.sid].status = "completed"

\* C26: the technique-mapping step of a session changes no anomaly row that
\* another session stored.
C26_MappingTouchesOwnRows ==
    [][pc = "map" =>
          \A i \in 1..Len(anomalies) :
              anomalies[i].session # call.sid => anomalies'[i] = anomalies[i]]_vars

(***************************************************************************)
(* Claim about applying updates, checked under SpecUpdate.                 *)
(***************************************************************************)
\* C27: the payload apply_update applies is the payload that was verified in
\* the same call.
C27_AppliedIsVerified ==
    applied_payload # NoPayloadApplied => applied_payload = verified_payload

(***************************************************************************)
(* Claim about the hotplug monitor, checked under SpecHotplug.             *)
(***************************************************************************)
\* C28: at most one polling loop is alive at any time, and while the last
\* call to have returned is stop_hotplug_monitor no loop is alive.
C28_OneLoopStopsOnStop ==
    /\ Cardinality({i \in 1..Len(hotplug_loops) : Alive(hotplug_loops[i])}) <= 1
    /\ stop_returned => \A i \in 1..Len(hotplug_loops) : ~Alive(hotplug_loops[i])

(***************************************************************************)
(* Claim about the ids of batch inserts, checked under SpecIds.            *)
(***************************************************************************)
\* C29: the ids insert_batch has given to the rows it is about to insert are
\* ids of no row in the table and of no row of another running batch,
\* whichever way concurrent calls interleave.
C29_AssignedIdsUnique ==
    \A c \in Callers :
        /\ batch[c].ids \cap table_ids = {}
        /\ \A d \in Callers \ {c} : batch[c].ids \cap batch[d].ids = {}

(***************************************************************************)
(* Claim about the summary of a session, checked under SpecSummary.        *)
(***************************************************************************)
\* C30: the severity distribution of the summary equals the per-severity
\* counts of the rows the session persisted.
C30_SummaryMatchesPersisted ==
    summary.made => summary.severity_distribution = summary.persisted

====
